---------------------------- MODULE Spec2Model ----------------------------
(***************************************************************************)
(* A model of algobattle: the match orchestrator (Match.run), the iterated *)
(* battle (Iterated.wrapper and the older Match._battle_wrapper), a single *)
(* fight (Match._one_fight), the scoring of a fight                        *)
(* (Problem.calculate_score), the teams (TeamInfo, Team, TeamHandler),     *)
(* the points of a match (Match.calculate_points), a container run, the    *)
(* observers, the averaged battle, the formatting of tables, interleaved   *)
(* calls of TeamInfo.build, an interrupt during a fight of the older       *)
(* Match, and the points of src/run.py.                                    *)
(*                                                                         *)
(* Each component has its own variables, initial condition, actions and    *)
(* specification; a component's specification keeps the variables of the   *)
(* other components at their idle values.                                  *)
(***************************************************************************)
EXTENDS Integers, Sequences, FiniteSets, TLC

(***************************************************************************)
(* Bounds of the model.                                                    *)
(***************************************************************************)
\* the largest number of matchups handed to Match.run
MaxMatchups == 4
\* the largest value of MatchConfig.parallel_battles
MaxParallel == 2
\* the largest instance size cap (n_max) of an iterated battle
MaxSize == 10
\* the largest exponent of the step size
MaxExponent == 2
\* the largest approximation ratio a fight returns, and the largest
\* match.approximation_ratio
MaxRatio == 2
\* the initial n_cap of the older Match._battle_wrapper: the code's literal is
\* 50000 (src/match.py line 164), scaled down here
LegacySizeCap == 8
\* the largest instance size handed to a single fight
MaxFightSize == 2
\* a solution's score (Scored.score) lies in -MaxScore .. MaxScore
MaxScore == 3
\* the largest number of configured teams
MaxTeams == 3
\* the largest number of Team constructions and cleanups in a row
MaxOps == 5
\* the largest number of active teams when the points are calculated
MaxActive == 2
\* the largest number of entries of excluded when the points are calculated
MaxExcluded == 1
\* the largest score of a battle
MaxBattleScore == 1
\* the longest output of a container
MaxOutput == 2
\* the number of observers, and the longest list of attached observers
MaxObservers == 2
\* the largest number of attach, detach and notify calls in a row
MaxCalls == 4
\* the largest number of fights of an averaged battle
MaxIters == 3
\* the largest number of columns of a table
MaxCols == 3
\* the largest number of data rows of a table
MaxRows == 1
\* the length of a long entry of a table
MaxEntry == 6
\* the largest max_width and max_height a table is formatted with
MaxWidth == 16
MaxHeight == 5
\* the least width of a data column: the literal 5 of the code
MinDataWidth == 5
\* the number of calls of TeamInfo.build that run interleaved
MaxBuilds == 2
\* the largest value of options.points of src/run.py
MaxPoints == 4
\* the largest value of options.battle_iterations
MaxBattleIterations == 2
\* the largest maximum that Match._battle_wrapper returns to src/run.py
MaxResult == 3
\* the largest group number of a team of the older Match
MaxGroupNumber == 2

VARIABLES
    \* ---- Match.run (src/algobattle/match.py) ----
    matchups,           \* self.teams.matchups: the matchups, in iteration order
    parallel_battles,   \* self.config.parallel_battles
    ui,                 \* whether a Ui was passed to Match.run
    runPc,              \* where Match.run stands
    nextMatchup,        \* index in matchups of the for loop
    results,            \* self.results: the matchups that have an entry
    task,               \* per matchup: the state of its _run_battle task
    borrowed_tokens,    \* limiter.borrowed_tokens
    uiLoop,             \* the state of the Ui.loop task
    completion_order,   \* history: the matchups in the order their battles ended
    \* ---- the iterated battle (src/algobattle/battle_wrappers/iterated.py,
    \*      src/match.py) ----
    variant,            \* "wrapper": Iterated.wrapper, "legacy": _battle_wrapper
    n_start,            \* problem.n_start
    n_max,              \* the configured cap (n_max, self.iteration_cap)
    exponent,           \* options['exponent']
    approximation_ratio,\* match.approximation_ratio
    n,                  \* the size of the next fight
    maximum_reached_n,
    i,                  \* the step counter
    n_cap,
    alive,
    solved_sizes,       \* history: the sizes of the fights that succeeded
    failed_sizes,       \* history: the sizes of the fights that failed
    last_fight,         \* history: the last fight [size, i, cap, failed, max]
    \* ---- one fight: Match._one_fight (src/match.py) ----
    fPc,                \* where _one_fight stands
    size,               \* the instance size of the fight
    teams_valid,        \* whether both team numbers are nonnegative ints
    gen_run,            \* how the generator container ended
    gen_output,         \* what the generator wrote to its standard output
    sol_run,            \* how the solver container ended
    sol_output,         \* what the solver wrote to its standard output
    solver_started,     \* whether the solver container was started
    latest_running_docker_image,
    fight_result,       \* what _one_fight returned
    \* ---- the score of a fight: Problem.calculate_score ----
    scPc,               \* where the scoring of the fight stands
    scored,             \* whether the generator's solution is a Scored Solution
    direction,          \* generator_solution.direction
    gen_score,          \* generator_solution.score(self, size)
    sol_score,          \* solution.score(self, size)
    raw,                \* what calculate_score returned, a ratio <<num, den>>
    score,              \* the score of the fight, a ratio <<num, den>>
    \* ---- the teams: TeamInfo, Team, TeamHandler (team.py), main (cli.py) ----
    tPc,                \* where the lifecycle of the teams stands
    num_infos,          \* len(infos): the number of configured teams
    info_index,         \* the position of TeamHandler.build's loop over infos
    stage,              \* where TeamInfo.build stands for the current info
    info_name,          \* info.name of the team being built
    active,             \* handler.active: the built teams
    excluded,           \* handler.excluded: info.name -> exception
    team_names,         \* the module's registry _team_names
    images,             \* built image -> the number of times it was removed
    infos,              \* history: the infos handled so far and how they ended
    match_outcome,      \* how the body of main's with block ended
    build_interrupted,  \* an interrupt arrived while the teams were built
    exit_index,         \* the position of TeamHandler.__exit__'s loop
    live_teams,         \* the Team objects created and not yet cleaned up
    num_ops,            \* the number of Team constructions and cleanups so far
    last_op,            \* history: the last construction or cleanup
    \* ---- the points: Match.calculate_points (match.py) ----
    ptPc,               \* where the call of calculate_points stands
    achievable_points,  \* self.config.points
    scoring_team,       \* self.config.battle_type.scoring_team
    battle_results,     \* self.results: matchup -> score of its battle
    points_table,       \* what calculate_points returned
    \* ---- a container run: Image.run (src/algobattle/docker.py) ----
    rPc,                \* where the call of Image.run stands
    timeout,            \* whether a time limit was given (timeout is not None)
    process,            \* how the docker run subprocess ended, and its stdout
    container,          \* the container of this run: none, running or gone
    pending,            \* what the try block and its except clauses return or raise
    kill_outcome,       \* how the docker kill subprocess ended
    kill_attempts,      \* the number of docker kill calls of this run
    kill_warning,       \* the failure of docker kill was logged
    run_exit,           \* what Image.run returned or raised
    \* ---- observers: Subject (src/algobattle/events.py), BattleWrapper (battle_wrapper.py) ----
    subject,            \* which class the notifier is: Subject or BattleWrapper
    observers,          \* self.observers / self._observers
    nPc,                \* where the call of notify stands
    notify_index,       \* the position of notify's for loop
    delivered,          \* history: the observers whose update this notify has called
    call_error,         \* the exception the last call raised into its caller
    num_calls,          \* the number of attach, detach and notify calls so far
    \* ---- the averaged battle (src/algobattle/battle_wrappers/averaged.py) ----
    aPc,                \* where the averaged battle stands
    approx_iters,       \* match.match_data.approx_iters
    approx_inst_size,   \* match.match_data.approx_inst_size
    iteration,          \* the number of passes of wrapper's for loop so far
    fights,             \* history: the size and the ratio of every fight run
    approx_ratios,      \* the approx_ratios of the round
    valuation,          \* the valuation calculate_points computed for the round
    \* ---- formatting a table: Table.format (util.py), _format_table (ui.py) ----
    tbPc,               \* whether the table has been formatted
    implementation,     \* which of the two functions formats the table
    table_rows,         \* column_names and _data: the length of every entry's string
    num_header_cols,    \* table.num_header_cols
    max_width,          \* the max_width argument
    max_height,         \* the max_height argument
    line_lengths,       \* the lengths of the lines of the formatted table
    \* ---- calls of TeamInfo.build that run interleaved ----
    bPc,                \* per call: check, generator, solver, returned or raised
    build_names,        \* per call: self.name
    built_images,       \* per image built by a call: how often it was removed
    registered_names,   \* _team_names
    build_error,        \* per call: the exception type it raised, or "none"
    \* ---- an interrupt during a fight of the older Match ----
    sgPc,               \* position in _one_fight, or exited
    group_numbers,      \* generating_team and solving_team
    latest_image,       \* self.latest_running_docker_image as the handler reads it
    containers,         \* the images that have a container that was started and has not finished
    in_flight,          \* history: containers when the signal arrived
    stopped,            \* history: the images whose containers the handler stopped
    \* ---- the points of the two teams in main of src/run.py ----
    rpPc,               \* position in main: results or counted
    points,             \* options.points
    results0,           \* the first list that match.run returned
    results1,           \* the second list that match.run returned
    points0,            \* points awarded to the first team
    points1             \* points awarded to the second team

matchVars == <<matchups, parallel_battles, ui, runPc, nextMatchup, results,
               task, borrowed_tokens, uiLoop,
               completion_order>>

iterVars == <<variant, n_start, n_max, exponent, approximation_ratio, n,
              maximum_reached_n, i, n_cap, alive, solved_sizes, failed_sizes,
              last_fight>>

fightVars == <<fPc, size, teams_valid, gen_run, gen_output, sol_run,
               sol_output, solver_started, latest_running_docker_image,
               fight_result>>

scoreVars == <<scPc, scored, direction, gen_score, sol_score, raw, score>>

teamVars == <<tPc, num_infos, info_index, stage, info_name, active, excluded,
              team_names, images, infos, match_outcome, build_interrupted,
              exit_index, live_teams, num_ops, last_op>>

pointVars == <<ptPc, achievable_points, scoring_team, battle_results,
               points_table>>

runVars == <<rPc, timeout, process, container, pending, kill_outcome,
             kill_attempts, kill_warning, run_exit>>

notifyVars == <<subject, observers, nPc, notify_index, delivered, call_error,
                num_calls>>

avgVars == <<aPc, approx_iters, approx_inst_size, iteration, fights,
             approx_ratios, valuation>>

tableVars == <<tbPc, implementation, table_rows, num_header_cols, max_width,
               max_height, line_lengths>>

buildVars == <<bPc, build_names, built_images, registered_names, build_error>>

signalVars == <<sgPc, group_numbers, latest_image, containers, in_flight,
                stopped>>

runPyVars == <<rpPc, points, results0, results1, points0, points1>>

vars == <<matchVars, iterVars, fightVars, scoreVars, teamVars, pointVars,
          runVars, notifyVars, avgVars, tableVars, buildVars, signalVars,
          runPyVars>>

-----------------------------------------------------------------------------
(***************************************************************************)
(* Match.run and Match._run_battle                                         *)
(***************************************************************************)
MatchupIds == 1 .. MaxMatchups

\* the tasks that hold a slot of the limiter
Running == {m \in MatchupIds : task[m] = "running"}

\* the tasks that have been admitted by the limiter at some point
Admitted == {m \in MatchupIds : task[m] \in {"running", "done", "raised"}}

\* the tasks that were started and wait for a slot
Waiting == {m \in MatchupIds : task[m] = "waiting"}

\* the tasks that ended, normally or with a caught exception
Finished == {m \in MatchupIds : task[m] \in {"done", "raised"}}

MatchIdle ==
    /\ matchups = << >>
    /\ parallel_battles = 1
    /\ ui = FALSE
    /\ runPc = "idle"
    /\ nextMatchup = 1
    /\ results = {}
    /\ task = [m \in MatchupIds |-> "none"]
    /\ borrowed_tokens = 0
    /\ uiLoop = "none"
    /\ completion_order = << >>

NoFight == [size |-> -1, i |-> 0, cap |-> 0, failed |-> FALSE, max |-> 0]

IterIdle ==
    /\ variant = "none"
    /\ n_start = 0
    /\ n_max = 0
    /\ exponent = 1
    /\ approximation_ratio = 1
    /\ n = 0
    /\ maximum_reached_n = 0
    /\ i = 0
    /\ n_cap = 0
    /\ alive = FALSE
    /\ solved_sizes = {}
    /\ failed_sizes = {}
    /\ last_fight = NoFight

FightIdle ==
    /\ fPc = "idle"
    /\ size = 0
    /\ teams_valid = TRUE
    /\ gen_run = "none"
    /\ gen_output = "none"
    /\ sol_run = "none"
    /\ sol_output = "none"
    /\ solver_started = FALSE
    /\ latest_running_docker_image = ""
    /\ fight_result = "none"

ScoreIdle ==
    /\ scPc = "idle"
    /\ scored = TRUE
    /\ direction = "minimize"
    /\ gen_score = 0
    /\ sol_score = 0
    /\ raw = <<0, 1>>
    /\ score = <<0, 1>>

NoOp == [op |-> "none", name |-> <<>>, ok |-> TRUE]

TeamIdle ==
    /\ tPc = "idle"
    /\ num_infos = 0
    /\ info_index = 0
    /\ stage = "none"
    /\ info_name = <<>>
    /\ active = <<>>
    /\ excluded = <<>>
    /\ team_names = {}
    /\ images = <<>>
    /\ infos = <<>>
    /\ match_outcome = "none"
    /\ build_interrupted = FALSE
    /\ exit_index = 0
    /\ live_teams = <<>>
    /\ num_ops = 0
    /\ last_op = NoOp

PointsIdle ==
    /\ ptPc = "idle"
    /\ achievable_points = 0
    /\ scoring_team = "solver"
    /\ battle_results = <<>>
    /\ points_table = <<>>

RunIdle ==
    /\ rPc = "idle"
    /\ timeout = FALSE
    /\ process = [kind |-> "none", stdout |-> << >>]
    /\ container = "none"
    /\ pending = [kind |-> "return", stdout |-> << >>, error |-> "none"]
    /\ kill_outcome = "none"
    /\ kill_attempts = 0
    /\ kill_warning = FALSE
    /\ run_exit = [kind |-> "none", stdout |-> << >>, error |-> "none"]

NotifyIdle ==
    /\ subject = "Subject"
    /\ observers = << >>
    /\ nPc = "idle"
    /\ notify_index = 0
    /\ delivered = << >>
    /\ call_error = "none"
    /\ num_calls = 0

AveragedIdle ==
    /\ aPc = "idle"
    /\ approx_iters = 0
    /\ approx_inst_size = 0
    /\ iteration = 0
    /\ fights = << >>
    /\ approx_ratios = << >>
    /\ valuation = <<0, 1>>

TableIdle ==
    /\ tbPc = "idle"
    /\ implementation = "Table.format"
    /\ table_rows = << >>
    /\ num_header_cols = 0
    /\ max_width = 0
    /\ max_height = 0
    /\ line_lengths = {}

BuildIdle ==
    /\ bPc = << >>
    /\ build_names = << >>
    /\ built_images = << >>
    /\ registered_names = {}
    /\ build_error = << >>

SignalIdle ==
    /\ sgPc = "idle"
    /\ group_numbers = <<0, 0>>
    /\ latest_image = ""
    /\ containers = {}
    /\ in_flight = {}
    /\ stopped = {}

RunPyIdle ==
    /\ rpPc = "idle"
    /\ points = 0
    /\ results0 = << >>
    /\ results1 = << >>
    /\ points0 = 0
    /\ points1 = 0

\* the state when Match.run is called
MatchInit ==
    /\ IterIdle
    /\ RunPyIdle
    /\ SignalIdle
    /\ BuildIdle
    /\ TableIdle
    /\ AveragedIdle
    /\ NotifyIdle
    /\ RunIdle
    /\ FightIdle
    /\ ScoreIdle
    /\ TeamIdle
    /\ PointsIdle
    /\ \E k \in 0 .. MaxMatchups : matchups = [j \in 1 .. k |-> j]
    /\ parallel_battles \in 1 .. MaxParallel
    /\ ui \in BOOLEAN
    /\ runPc = "init"
    /\ nextMatchup = 1
    /\ results = {}
    /\ task = [m \in MatchupIds |-> "none"]
    /\ borrowed_tokens = 0
    /\ uiLoop = "none"
    /\ completion_order = << >>

\* self.results = {}; the limiter and the task group are created
RunEnter ==
    /\ runPc = "init"
    /\ results' = {}
    /\ borrowed_tokens' = 0
    /\ runPc' = IF ui THEN "uiEnter" ELSE "loop"
    /\ UNCHANGED fightVars
    /\ UNCHANGED runPyVars
    /\ UNCHANGED signalVars
    /\ UNCHANGED buildVars
    /\ UNCHANGED tableVars
    /\ UNCHANGED avgVars
    /\ UNCHANGED notifyVars
    /\ UNCHANGED runVars
    /\ UNCHANGED scoreVars
    /\ UNCHANGED teamVars
    /\ UNCHANGED pointVars
    /\ UNCHANGED iterVars
    /\ UNCHANGED <<matchups, parallel_battles, ui, nextMatchup, task, uiLoop,
                   completion_order>>

\* await exit_stack.enter_async_context(ui): Ui.__aenter__ awaits
\* taskgroup.start(self.loop).  Ui.loop takes no task_status and never calls
\* task_status.started(): the start either fails on the unexpected argument
\* (the exception leaves Match.run) or never completes.
UiEnter ==
    /\ runPc = "uiEnter"
    /\ \/ /\ runPc' = "aborted"
          /\ uiLoop' = "none"
       \/ /\ runPc' = "uiBlocked"
          /\ uiLoop' = "running"
    /\ UNCHANGED fightVars
    /\ UNCHANGED runPyVars
    /\ UNCHANGED signalVars
    /\ UNCHANGED buildVars
    /\ UNCHANGED tableVars
    /\ UNCHANGED avgVars
    /\ UNCHANGED notifyVars
    /\ UNCHANGED runVars
    /\ UNCHANGED scoreVars
    /\ UNCHANGED teamVars
    /\ UNCHANGED pointVars
    /\ UNCHANGED iterVars
    /\ UNCHANGED <<matchups, parallel_battles, ui, nextMatchup, results, task,
                   borrowed_tokens,
                   completion_order>>

\* one pass of the for loop up to the await, as it would be if the battle
\* were not entered in results when it is created
StartBattleNoEntry ==
    /\ runPc = "loop"
    /\ nextMatchup <= Len(matchups)
    /\ task' = [task EXCEPT ![matchups[nextMatchup]] = "waiting"]
    /\ runPc' = "starting"
    /\ UNCHANGED fightVars
    /\ UNCHANGED runPyVars
    /\ UNCHANGED signalVars
    /\ UNCHANGED buildVars
    /\ UNCHANGED tableVars
    /\ UNCHANGED avgVars
    /\ UNCHANGED notifyVars
    /\ UNCHANGED runVars
    /\ UNCHANGED scoreVars
    /\ UNCHANGED teamVars
    /\ UNCHANGED pointVars
    /\ UNCHANGED iterVars
    /\ UNCHANGED <<matchups, parallel_battles, ui, nextMatchup, results,
                   borrowed_tokens, uiLoop, completion_order>>

\* one pass of the for loop up to the await: the battle is created, entered
\* in results, and tg.start spawns _run_battle and waits for started()
StartBattle ==
    /\ runPc = "loop"
    /\ nextMatchup <= Len(matchups)
    /\ LET m == matchups[nextMatchup] IN
         /\ results' = results \cup {m}
         /\ task' = [task EXCEPT ![m] = "waiting"]
    /\ runPc' = "starting"
    /\ UNCHANGED fightVars
    /\ UNCHANGED runPyVars
    /\ UNCHANGED signalVars
    /\ UNCHANGED buildVars
    /\ UNCHANGED tableVars
    /\ UNCHANGED avgVars
    /\ UNCHANGED notifyVars
    /\ UNCHANGED runVars
    /\ UNCHANGED scoreVars
    /\ UNCHANGED teamVars
    /\ UNCHANGED pointVars
    /\ UNCHANGED iterVars
    /\ UNCHANGED <<matchups, parallel_battles, ui, nextMatchup,
                   borrowed_tokens, uiLoop,
                   completion_order>>

\* _run_battle: async with limiter (a slot is free), task_status.started():
\* the battle runs and tg.start returns to the for loop
AdmitUnlimited(m) ==
    /\ task[m] = "waiting"
    /\ borrowed_tokens' = borrowed_tokens + 1
    /\ task' = [task EXCEPT ![m] = "running"]
    /\ runPc' = "loop"
    /\ nextMatchup' = nextMatchup + 1
    /\ UNCHANGED fightVars
    /\ UNCHANGED runPyVars
    /\ UNCHANGED signalVars
    /\ UNCHANGED buildVars
    /\ UNCHANGED tableVars
    /\ UNCHANGED avgVars
    /\ UNCHANGED notifyVars
    /\ UNCHANGED runVars
    /\ UNCHANGED scoreVars
    /\ UNCHANGED teamVars
    /\ UNCHANGED pointVars
    /\ UNCHANGED iterVars
    /\ UNCHANGED <<matchups, parallel_battles, ui, results, uiLoop,
                   completion_order>>

Admit(m) ==
    /\ task[m] = "waiting"
    /\ borrowed_tokens < parallel_battles
    /\ borrowed_tokens' = borrowed_tokens + 1
    /\ task' = [task EXCEPT ![m] = "running"]
    /\ runPc' = "loop"
    /\ nextMatchup' = nextMatchup + 1
    /\ UNCHANGED fightVars
    /\ UNCHANGED runPyVars
    /\ UNCHANGED signalVars
    /\ UNCHANGED buildVars
    /\ UNCHANGED tableVars
    /\ UNCHANGED avgVars
    /\ UNCHANGED notifyVars
    /\ UNCHANGED runVars
    /\ UNCHANGED scoreVars
    /\ UNCHANGED teamVars
    /\ UNCHANGED pointVars
    /\ UNCHANGED iterVars
    /\ UNCHANGED <<matchups, parallel_battles, ui, results, uiLoop,
                   completion_order>>

\* battle.run_battle returns, as it would be if the results were collected
\* when a battle ends, each end replacing what had been collected
BattleReturnsReplacing(m) ==
    /\ task[m] = "running"
    /\ task' = [task EXCEPT ![m] = "done"]
    /\ borrowed_tokens' = borrowed_tokens - 1
    /\ results' = {m}
    /\ UNCHANGED fightVars
    /\ UNCHANGED runPyVars
    /\ UNCHANGED signalVars
    /\ UNCHANGED buildVars
    /\ UNCHANGED tableVars
    /\ UNCHANGED avgVars
    /\ UNCHANGED notifyVars
    /\ UNCHANGED runVars
    /\ UNCHANGED scoreVars
    /\ UNCHANGED teamVars
    /\ UNCHANGED pointVars
    /\ UNCHANGED iterVars
    /\ UNCHANGED <<matchups, parallel_battles, ui, runPc, nextMatchup,
                   uiLoop>>
    /\ completion_order' = Append(completion_order, m)

\* battle.run_battle returns; the limiter is left
BattleReturns(m) ==
    /\ task[m] = "running"
    /\ task' = [task EXCEPT ![m] = "done"]
    /\ borrowed_tokens' = borrowed_tokens - 1
    /\ UNCHANGED fightVars
    /\ UNCHANGED runPyVars
    /\ UNCHANGED signalVars
    /\ UNCHANGED buildVars
    /\ UNCHANGED tableVars
    /\ UNCHANGED avgVars
    /\ UNCHANGED notifyVars
    /\ UNCHANGED runVars
    /\ UNCHANGED scoreVars
    /\ UNCHANGED teamVars
    /\ UNCHANGED pointVars
    /\ UNCHANGED iterVars
    /\ UNCHANGED <<matchups, parallel_battles, ui, runPc, nextMatchup,
                   results, uiLoop>>
    /\ completion_order' = Append(completion_order, m)

\* an exception that leaves _run_battle: the task group cancels its other
\* tasks and the exception leaves Match.run
BattleRaisesUncaught(m) ==
    /\ task[m] = "running"
    /\ task' = [k \in MatchupIds |->
                  IF k = m THEN "raised"
                  ELSE IF task[k] \in {"waiting", "running"} THEN "cancelled"
                  ELSE task[k]]
    /\ borrowed_tokens' = 0
    /\ runPc' = "aborted"
    /\ UNCHANGED fightVars
    /\ UNCHANGED runPyVars
    /\ UNCHANGED signalVars
    /\ UNCHANGED buildVars
    /\ UNCHANGED tableVars
    /\ UNCHANGED avgVars
    /\ UNCHANGED notifyVars
    /\ UNCHANGED runVars
    /\ UNCHANGED scoreVars
    /\ UNCHANGED teamVars
    /\ UNCHANGED pointVars
    /\ UNCHANGED iterVars
    /\ UNCHANGED <<matchups, parallel_battles, ui, nextMatchup, results,
                   uiLoop>>
    /\ completion_order' = Append(completion_order, m)

\* battle.run_battle raises: except Exception logs it; the limiter is left
BattleRaises(m) ==
    /\ task[m] = "running"
    /\ task' = [task EXCEPT ![m] = "raised"]
    /\ borrowed_tokens' = borrowed_tokens - 1
    /\ UNCHANGED fightVars
    /\ UNCHANGED runPyVars
    /\ UNCHANGED signalVars
    /\ UNCHANGED buildVars
    /\ UNCHANGED tableVars
    /\ UNCHANGED avgVars
    /\ UNCHANGED notifyVars
    /\ UNCHANGED runVars
    /\ UNCHANGED scoreVars
    /\ UNCHANGED teamVars
    /\ UNCHANGED pointVars
    /\ UNCHANGED iterVars
    /\ UNCHANGED <<matchups, parallel_battles, ui, runPc, nextMatchup,
                   results, uiLoop>>
    /\ completion_order' = Append(completion_order, m)

\* the for loop is exhausted: the exit stack is left (Ui.__aexit__ does
\* nothing) and the task group waits for its tasks
LoopExit ==
    /\ runPc = "loop"
    /\ nextMatchup > Len(matchups)
    /\ runPc' = "joining"
    /\ UNCHANGED fightVars
    /\ UNCHANGED runPyVars
    /\ UNCHANGED signalVars
    /\ UNCHANGED buildVars
    /\ UNCHANGED tableVars
    /\ UNCHANGED avgVars
    /\ UNCHANGED notifyVars
    /\ UNCHANGED runVars
    /\ UNCHANGED scoreVars
    /\ UNCHANGED teamVars
    /\ UNCHANGED pointVars
    /\ UNCHANGED iterVars
    /\ UNCHANGED <<matchups, parallel_battles, ui, nextMatchup, results, task,
                   borrowed_tokens, uiLoop,
                   completion_order>>

\* every task of the task group has ended: Match.run returns
RunReturns ==
    /\ runPc = "joining"
    /\ \A m \in MatchupIds : task[m] \notin {"waiting", "running"}
    /\ uiLoop # "running"
    /\ runPc' = "returned"
    /\ UNCHANGED fightVars
    /\ UNCHANGED runPyVars
    /\ UNCHANGED signalVars
    /\ UNCHANGED buildVars
    /\ UNCHANGED tableVars
    /\ UNCHANGED avgVars
    /\ UNCHANGED notifyVars
    /\ UNCHANGED runVars
    /\ UNCHANGED scoreVars
    /\ UNCHANGED teamVars
    /\ UNCHANGED pointVars
    /\ UNCHANGED iterVars
    /\ UNCHANGED <<matchups, parallel_battles, ui, nextMatchup, results, task,
                   borrowed_tokens, uiLoop,
                   completion_order>>

MatchNext ==
    \/ RunEnter
    \/ UiEnter
    \/ StartBattle
    \/ \E m \in MatchupIds : Admit(m)
    \/ \E m \in MatchupIds : BattleReturns(m)
    \/ \E m \in MatchupIds : BattleRaises(m)
    \/ LoopExit
    \/ RunReturns

\* The event loop runs a task that can proceed, and a battle ends (by
\* returning or by raising).
SpecMatch ==
    /\ MatchInit
    /\ [][MatchNext]_vars
    /\ WF_vars(MatchNext)

-----------------------------------------------------------------------------
(***************************************************************************)
(* The iterated battle: Iterated.wrapper, and Match._battle_wrapper of the *)
(* older src/match.py, which runs the same loop with exponent 2, with      *)
(* maximum_reached_n = -1 and n_cap = 50000 at the start, and with         *)
(* self.iteration_cap in the place of n_max.                               *)
(***************************************************************************)
RECURSIVE Pow(_, _)
\* b ** e
Pow(b, e) == IF e = 0 THEN 1 ELSE b * Pow(b, e - 1)

\* the largest element of a non-empty set of integers
SetMax(S) == CHOOSE x \in S : \A y \in S : y <= x

\* Iterated.wrapper: the state before the loop
WrapperInit ==
    /\ variant = "wrapper"
    /\ n_max \in 1 .. MaxSize
    /\ n_start \in 0 .. n_max
    /\ exponent \in 1 .. MaxExponent
    /\ approximation_ratio \in 1 .. MaxRatio
    /\ n = n_start
    /\ maximum_reached_n = 0
    /\ i = 0
    /\ n_cap = n_max
    /\ alive = TRUE

\* Match._battle_wrapper: the state before the loop.  problem.n_start is
\* below the initial n_cap (50000 in the code); self.iteration_cap is any
\* configured value, below, at or above it.
LegacyInit ==
    /\ variant = "legacy"
    /\ n_max \in {LegacySizeCap - 1, LegacySizeCap, LegacySizeCap + 1}
    /\ n_start \in 0 .. LegacySizeCap - 1
    /\ exponent = 2
    /\ approximation_ratio = 1
    /\ n = n_start
    /\ maximum_reached_n = -1
    /\ i = 0
    /\ n_cap = LegacySizeCap
    /\ alive = TRUE

IterInit ==
    /\ MatchIdle
    /\ RunPyIdle
    /\ SignalIdle
    /\ BuildIdle
    /\ TableIdle
    /\ AveragedIdle
    /\ NotifyIdle
    /\ RunIdle
    /\ FightIdle
    /\ ScoreIdle
    /\ TeamIdle
    /\ PointsIdle
    /\ WrapperInit \/ LegacyInit
    /\ solved_sizes = {}
    /\ failed_sizes = {}
    /\ last_fight = NoFight

\* whether a fight with this approximation ratio ends alive: the solver
\* failed (0.0) or does not meet the required solution quality
FightFailed(approx_ratio) ==
    \/ approx_ratio = 0
    \/ approx_ratio > approximation_ratio

\* the first if of the loop body, as it would be if a failure after a step
\* greater than one set the cap without taking the step back
BacktrackKeepsSize(s) ==
    IF ~s.alive /\ s.i > 1
    THEN [s EXCEPT !.n_cap = s.n, !.i = 0, !.alive = TRUE]
    ELSE IF s.n > s.maximum_reached_n /\ s.alive
    THEN [s EXCEPT !.maximum_reached_n = s.n]
    ELSE s

\* the first if of the loop body, as it would be if a failure after a step
\* greater than one set no cap and took the search back to its start
BacktrackRestart(s) ==
    IF ~s.alive /\ s.i > 1
    THEN [s EXCEPT !.n = n_start, !.i = 0, !.alive = TRUE]
    ELSE IF s.n > s.maximum_reached_n /\ s.alive
    THEN [s EXCEPT !.maximum_reached_n = s.n]
    ELSE s

\* the first if of the loop body: a failure after a step greater than one
\* sets the cap and takes the step back; a success raises maximum_reached_n
Backtrack(s) ==
    IF ~s.alive /\ s.i > 1
    THEN [s EXCEPT !.n_cap = s.n, !.n = s.n - Pow(s.i, exponent), !.i = 0,
                   !.alive = TRUE]
    ELSE IF s.n > s.maximum_reached_n /\ s.alive
    THEN [s EXCEPT !.maximum_reached_n = s.n]
    ELSE s

\* the second if of the loop body, without the reset of the step size
AdvanceNoPullBack(s) ==
    IF s.n + 1 = s.n_cap
    THEN [s EXCEPT !.alive = FALSE]
    ELSE LET i1 == s.i + 1
             n1 == s.n + Pow(i1, exponent)
         IN  IF n1 >= s.n_cap /\ s.n_cap = n_max
             THEN [s EXCEPT !.i = i1, !.n = n1, !.maximum_reached_n = n_max,
                            !.alive = FALSE]
             ELSE [s EXCEPT !.i = i1, !.n = n1]

\* the second if of the loop body: stop below the cap, or step on; a step
\* to or beyond a cap set by a failure is reset, a step to or beyond n_max
\* ends the battle with maximum_reached_n = n_max
Advance(s) ==
    IF s.n + 1 = s.n_cap
    THEN [s EXCEPT !.alive = FALSE]
    ELSE LET i1 == s.i + 1
             n1 == s.n + Pow(i1, exponent)
         IN  IF n1 >= s.n_cap /\ s.n_cap # n_max
             THEN [s EXCEPT !.i = 1, !.n = n1 - (Pow(i1, exponent) - 1)]
             ELSE IF n1 >= s.n_cap /\ s.n_cap = n_max
             THEN [s EXCEPT !.i = i1, !.n = n1, !.maximum_reached_n = n_max,
                            !.alive = FALSE]
             ELSE [s EXCEPT !.i = i1, !.n = n1]

\* one pass of the while loop, given whether the fight at size n failed
LoopBody(failed) ==
    LET s0 == [n |-> n, i |-> i, n_cap |-> n_cap,
               maximum_reached_n |-> maximum_reached_n, alive |-> ~failed]
        s2 == Advance(Backtrack(s0))
    IN  /\ n' = s2.n
        /\ i' = s2.i
        /\ n_cap' = s2.n_cap
        /\ maximum_reached_n' = s2.maximum_reached_n
        /\ alive' = s2.alive
        /\ solved_sizes' = IF failed THEN solved_sizes ELSE solved_sizes \cup {n}
        /\ failed_sizes' = IF failed THEN failed_sizes \cup {n} ELSE failed_sizes
        /\ last_fight' = [size |-> n, i |-> i, cap |-> n_cap, failed |-> failed,
                          max |-> maximum_reached_n]
        /\ UNCHANGED <<variant, n_start, n_max, exponent, approximation_ratio>>
        /\ UNCHANGED matchVars
        /\ UNCHANGED runPyVars
        /\ UNCHANGED signalVars
        /\ UNCHANGED buildVars
        /\ UNCHANGED tableVars
        /\ UNCHANGED avgVars
        /\ UNCHANGED notifyVars
        /\ UNCHANGED runVars
        /\ UNCHANGED fightVars
        /\ UNCHANGED scoreVars
        /\ UNCHANGED teamVars
        /\ UNCHANGED pointVars

\* Iterated.wrapper: a pass of the loop; match._one_fight returns the
\* approximation ratio of the fight
WrapperFight ==
    /\ variant = "wrapper"
    /\ alive
    /\ \E approx_ratio \in 0 .. MaxRatio : LoopBody(FightFailed(approx_ratio))

\* Match._battle_wrapper: a pass of the loop; self._one_fight returns whether
\* the solver is still alive
LegacyFight ==
    /\ variant = "legacy"
    /\ alive
    /\ \E one_fight \in BOOLEAN : LoopBody(~one_fight)

IterNext ==
    \/ WrapperFight
    \/ LegacyFight

\* the battle has ended: the while loop was left
IterDone == variant # "none" /\ ~alive

\* A fight ends (the containers run under a timeout), so the loop goes on.
SpecIterated ==
    /\ IterInit
    /\ [][IterNext]_vars
    /\ WF_vars(IterNext)

-----------------------------------------------------------------------------
(***************************************************************************)
(* One fight: Match._one_fight of src/match.py.  A container run ends in   *)
(* one of three ways: it exceeds its timeout, it exits with status 0, or   *)
(* it exits with another status (it crashed); unless it timed out it has   *)
(* written something to its standard output.  _one_fight reads the output  *)
(* and never the exit status.                                              *)
(***************************************************************************)
RunOutcomes == {"timeout", "exit_ok", "crashed"}

\* what a generator can write: bytes that parser.decode cannot decode, an
\* instance with certificate that the verifier rejects, or one it accepts
GeneratorOutputs == {"undecodable", "invalid", "valid"}

\* what a solver can write: bytes that cannot be decoded, a solution the
\* verifier rejects, one of insufficient quality, or a correct one
SolverOutputs == {"undecodable", "wrong", "low_quality", "correct"}

FightInit ==
    /\ MatchIdle
    /\ RunPyIdle
    /\ SignalIdle
    /\ BuildIdle
    /\ TableIdle
    /\ AveragedIdle
    /\ NotifyIdle
    /\ RunIdle
    /\ IterIdle
    /\ ScoreIdle
    /\ TeamIdle
    /\ PointsIdle
    /\ fPc = "start"
    /\ size \in 0 .. MaxFightSize
    /\ teams_valid \in BOOLEAN
    /\ gen_run = "none"
    /\ gen_output = "none"
    /\ sol_run = "none"
    /\ sol_output = "none"
    /\ solver_started = FALSE
    /\ latest_running_docker_image \in {"", "generator", "solver"}
    /\ fight_result = "none"

\* the check of the team numbers: an exception unless both are nonnegative
CheckTeams ==
    /\ fPc = "start"
    /\ fPc' = IF teams_valid THEN "gen_start" ELSE "raised"
    /\ UNCHANGED matchVars
    /\ UNCHANGED runPyVars
    /\ UNCHANGED signalVars
    /\ UNCHANGED buildVars
    /\ UNCHANGED tableVars
    /\ UNCHANGED avgVars
    /\ UNCHANGED notifyVars
    /\ UNCHANGED runVars
    /\ UNCHANGED iterVars
    /\ UNCHANGED scoreVars
    /\ UNCHANGED teamVars
    /\ UNCHANGED pointVars
    /\ UNCHANGED <<size, teams_valid, gen_run, gen_output, sol_run, sol_output,
                   solver_started, latest_running_docker_image, fight_result>>

\* subprocess.Popen(generator_run_command)
StartGenerator ==
    /\ fPc = "gen_start"
    /\ latest_running_docker_image' = "generator"
    /\ fPc' = "gen_running"
    /\ UNCHANGED matchVars
    /\ UNCHANGED runPyVars
    /\ UNCHANGED signalVars
    /\ UNCHANGED buildVars
    /\ UNCHANGED tableVars
    /\ UNCHANGED avgVars
    /\ UNCHANGED notifyVars
    /\ UNCHANGED runVars
    /\ UNCHANGED iterVars
    /\ UNCHANGED scoreVars
    /\ UNCHANGED teamVars
    /\ UNCHANGED pointVars
    /\ UNCHANGED <<size, teams_valid, gen_run, gen_output, sol_run, sol_output,
                   solver_started, fight_result>>

\* p.communicate(timeout=self.timeout_generator) and parser.decode: on a
\* timeout the fight returns (True, ...); output that cannot be decoded raises
\* out of _one_fight; any other output goes on to the checks
GeneratorCommunicate ==
    /\ fPc = "gen_running"
    /\ \E run \in RunOutcomes :
         /\ gen_run' = run
         /\ IF run = "timeout"
            THEN /\ gen_output' = "none"
                 /\ fight_result' = "alive"
                 /\ fPc' = "returned"
            ELSE /\ gen_output' \in GeneratorOutputs
                 /\ fight_result' = fight_result
                 /\ fPc' = IF gen_output' = "undecodable" THEN "raised"
                           ELSE "gen_check"
    /\ UNCHANGED matchVars
    /\ UNCHANGED runPyVars
    /\ UNCHANGED signalVars
    /\ UNCHANGED buildVars
    /\ UNCHANGED tableVars
    /\ UNCHANGED avgVars
    /\ UNCHANGED notifyVars
    /\ UNCHANGED runVars
    /\ UNCHANGED iterVars
    /\ UNCHANGED scoreVars
    /\ UNCHANGED teamVars
    /\ UNCHANGED pointVars
    /\ UNCHANGED <<size, teams_valid, sol_run, sol_output, solver_started,
                   latest_running_docker_image>>

\* split, parse and verify_solution_against_instance of the generator's
\* output: an invalid instance returns (True, 'Generator ... failed')
VerifyInstance ==
    /\ fPc = "gen_check"
    /\ IF gen_output = "valid"
       THEN /\ fPc' = "sol_start"
            /\ fight_result' = fight_result
       ELSE /\ fPc' = "returned"
            /\ fight_result' = "alive"
    /\ UNCHANGED matchVars
    /\ UNCHANGED runPyVars
    /\ UNCHANGED signalVars
    /\ UNCHANGED buildVars
    /\ UNCHANGED tableVars
    /\ UNCHANGED avgVars
    /\ UNCHANGED notifyVars
    /\ UNCHANGED runVars
    /\ UNCHANGED iterVars
    /\ UNCHANGED scoreVars
    /\ UNCHANGED teamVars
    /\ UNCHANGED pointVars
    /\ UNCHANGED <<size, teams_valid, gen_run, gen_output, sol_run, sol_output,
                   solver_started, latest_running_docker_image>>

\* subprocess.Popen(solver_run_command)
StartSolver ==
    /\ fPc = "sol_start"
    /\ solver_started' = TRUE
    /\ latest_running_docker_image' = "solver"
    /\ fPc' = "sol_running"
    /\ UNCHANGED matchVars
    /\ UNCHANGED runPyVars
    /\ UNCHANGED signalVars
    /\ UNCHANGED buildVars
    /\ UNCHANGED tableVars
    /\ UNCHANGED avgVars
    /\ UNCHANGED notifyVars
    /\ UNCHANGED runVars
    /\ UNCHANGED iterVars
    /\ UNCHANGED scoreVars
    /\ UNCHANGED teamVars
    /\ UNCHANGED pointVars
    /\ UNCHANGED <<size, teams_valid, gen_run, gen_output, sol_run, sol_output,
                   fight_result>>

\* p.communicate(timeout=self.timeout_solver): on a timeout the fight returns
\* (False, ...)
SolverCommunicate ==
    /\ fPc = "sol_running"
    /\ \E run \in RunOutcomes :
         /\ sol_run' = run
         /\ IF run = "timeout"
            THEN /\ sol_output' = "none"
                 /\ fight_result' = "dead"
                 /\ fPc' = "returned"
            ELSE /\ sol_output' \in SolverOutputs
                 /\ fight_result' = fight_result
                 /\ fPc' = "sol_check"
    /\ UNCHANGED matchVars
    /\ UNCHANGED runPyVars
    /\ UNCHANGED signalVars
    /\ UNCHANGED buildVars
    /\ UNCHANGED tableVars
    /\ UNCHANGED avgVars
    /\ UNCHANGED notifyVars
    /\ UNCHANGED runVars
    /\ UNCHANGED iterVars
    /\ UNCHANGED scoreVars
    /\ UNCHANGED teamVars
    /\ UNCHANGED pointVars
    /\ UNCHANGED <<size, teams_valid, gen_run, gen_output, solver_started,
                   latest_running_docker_image>>

\* parser.decode (outside any try), parse_solution and the two verifier
\* checks of the solver's output
VerifySolution ==
    /\ fPc = "sol_check"
    /\ IF sol_output = "undecodable"
       THEN /\ fPc' = "raised"
            /\ fight_result' = fight_result
       ELSE /\ fPc' = "returned"
            /\ fight_result' = IF sol_output = "correct" THEN "alive" ELSE "dead"
    /\ UNCHANGED matchVars
    /\ UNCHANGED runPyVars
    /\ UNCHANGED signalVars
    /\ UNCHANGED buildVars
    /\ UNCHANGED tableVars
    /\ UNCHANGED avgVars
    /\ UNCHANGED notifyVars
    /\ UNCHANGED runVars
    /\ UNCHANGED iterVars
    /\ UNCHANGED scoreVars
    /\ UNCHANGED teamVars
    /\ UNCHANGED pointVars
    /\ UNCHANGED <<size, teams_valid, gen_run, gen_output, sol_run, sol_output,
                   solver_started, latest_running_docker_image>>

FightNext ==
    \/ CheckTeams
    \/ StartGenerator
    \/ GeneratorCommunicate
    \/ VerifyInstance
    \/ StartSolver
    \/ SolverCommunicate
    \/ VerifySolution

\* _one_fight has ended, by returning or with an exception
FightEnded == fPc \in {"returned", "raised"}

SpecFight ==
    /\ FightInit
    /\ [][FightNext]_vars

-----------------------------------------------------------------------------
(***************************************************************************)
(* The score of a fight whose generator and solver both succeeded:        *)
(* Problem.calculate_score of src/algobattle/problem.py, followed by the   *)
(* clamp of the fight runner.  The fight runner (algobattle.fight_handler) *)
(* is imported by battle.py and battle_wrapper.py and is not part of the   *)
(* sources, so the clamp follows the specification:                        *)
(*   score = clamp(problem.calculate_score(...), 0, 1).                    *)
(* Scores are integers and a quotient is the pair <<num, den>>, den > 0.   *)
(***************************************************************************)
Scores == (0 - MaxScore) .. MaxScore

\* a / b for b # 0, with the sign carried by the numerator
Ratio(a, b) == IF b > 0 THEN <<a, b>> ELSE <<0 - a, 0 - b>>

\* the default implementation with the two directions exchanged
calculate_score_swapped(gen, sol, dir) ==
    IF gen = 0 THEN <<1, 1>>
    ELSE IF sol = 0 THEN <<0, 1>>
    ELSE IF dir = "minimize" THEN Ratio(sol, gen)
    ELSE Ratio(gen, sol)

\* the default implementation of Problem.calculate_score
calculate_score(gen, sol, dir) ==
    IF gen = 0 THEN <<1, 1>>
    ELSE IF sol = 0 THEN <<0, 1>>
    ELSE IF dir = "minimize" THEN Ratio(gen, sol)
    ELSE Ratio(sol, gen)

\* clamp(r, 0, 1) of a ratio r = <<num, den>> with den > 0
Clamp(r) ==
    IF r[1] < 0 THEN <<0, 1>>
    ELSE IF r[1] > r[2] THEN <<1, 1>>
    ELSE r

ScoreInit ==
    /\ MatchIdle
    /\ RunPyIdle
    /\ SignalIdle
    /\ BuildIdle
    /\ TableIdle
    /\ AveragedIdle
    /\ NotifyIdle
    /\ RunIdle
    /\ IterIdle
    /\ TeamIdle
    /\ PointsIdle
    /\ fPc = "idle"
    /\ size \in 0 .. MaxFightSize
    /\ teams_valid = TRUE
    /\ gen_run = "none"
    /\ gen_output = "none"
    /\ sol_run = "none"
    /\ sol_output = "none"
    /\ solver_started = FALSE
    /\ latest_running_docker_image = ""
    /\ fight_result = "none"
    /\ scPc = "start"
    /\ scored \in BOOLEAN
    /\ direction \in {"minimize", "maximize"}
    /\ gen_score \in Scores
    /\ sol_score \in Scores
    /\ raw = <<0, 1>>
    /\ score = <<0, 1>>

\* the call of calculate_score: NotImplementedError unless the generator's
\* solution is a Scored Solution of the problem
CalculateRaw ==
    /\ scPc = "start"
    /\ IF scored
       THEN /\ raw' = calculate_score(gen_score, sol_score, direction)
            /\ scPc' = "raw"
       ELSE /\ raw' = raw
            /\ scPc' = "raised"
    /\ UNCHANGED <<scored, direction, gen_score, sol_score, score>>
    /\ UNCHANGED matchVars
    /\ UNCHANGED runPyVars
    /\ UNCHANGED signalVars
    /\ UNCHANGED buildVars
    /\ UNCHANGED tableVars
    /\ UNCHANGED avgVars
    /\ UNCHANGED notifyVars
    /\ UNCHANGED runVars
    /\ UNCHANGED iterVars
    /\ UNCHANGED fightVars
    /\ UNCHANGED teamVars
    /\ UNCHANGED pointVars

\* the fight runner clamps the raw value and uses it as the fight's score
ClampScore ==
    /\ scPc = "raw"
    /\ score' = Clamp(raw)
    /\ scPc' = "clamped"
    /\ UNCHANGED <<scored, direction, gen_score, sol_score, raw>>
    /\ UNCHANGED matchVars
    /\ UNCHANGED runPyVars
    /\ UNCHANGED signalVars
    /\ UNCHANGED buildVars
    /\ UNCHANGED tableVars
    /\ UNCHANGED avgVars
    /\ UNCHANGED notifyVars
    /\ UNCHANGED runVars
    /\ UNCHANGED iterVars
    /\ UNCHANGED fightVars
    /\ UNCHANGED teamVars
    /\ UNCHANGED pointVars

ScoreNext ==
    \/ CalculateRaw
    \/ ClampScore

SpecScore ==
    /\ ScoreInit
    /\ [][ScoreNext]_vars

-----------------------------------------------------------------------------
(***************************************************************************)
(* The teams: TeamInfo.build, Team and TeamHandler of                      *)
(* src/algobattle/team.py, used as main of src/algobattle/cli.py uses      *)
(* them: the handler is built, the match runs inside its with block, and   *)
(* leaving the block cleans the active teams up.  The programs' build and  *)
(* remove (algobattle.docker_util) are not part of the sources: a build    *)
(* ends like build of src/algobattle/docker.py, with an image or with a    *)
(* DockerError, and remove releases the image.  A name is a sequence of    *)
(* characters.                                                             *)
(***************************************************************************)
Names == {<<"a", " ">>, <<"A", "_">>, <<"b">>, <<"c">>}

\* str.lower on one character
Lower(c) ==
    CASE c = "A" -> "a"
      [] c = "B" -> "b"
      [] c = "C" -> "c"
      [] OTHER -> c

\* name.replace(" ", "_").lower()
Normalize(name) ==
    [k \in DOMAIN name |-> IF name[k] = " " THEN "_" ELSE Lower(name[k])]

\* how a build ends: with an image, or with TimeoutExpired,
\* CalledProcessError or another exception, each raised as a DockerError
BuildOutcomes == {"ok", "timeout", "failed", "error"}

DockerError(cause) == [type |-> "DockerError", cause |-> cause]

ValueError == [type |-> "ValueError", cause |-> "none"]

\* the image of the given role of the team built from the k-th info
Image(k, role) == <<k, role>>

\* image.remove(): the image is removed once more
Remove(imgs, img) == [imgs EXCEPT ![img] = @ + 1]

\* an except clause that records nothing
ExcludeDropped(excl, name, e) == excl

\* handler.excluded[info.name] = ExceptionInfo.from_exception(e)
Exclude(excl, name, e) == (name :> e) @@ excl

\* Team.cleanup that leaves the solver's image behind
CleanupGeneratorOnly(imgs, team) == Remove(imgs, team.generator)

\* Team.cleanup: the removal of the two images
Cleanup(imgs, team) == Remove(Remove(imgs, team.generator), team.solver)

\* Team.__post_init__ that registers the name whether or not it is in use
PostInitUnchecked(names, name) == [ok |-> TRUE, names |-> names \cup {name}]

\* Team.__post_init__: ValueError if the normalized name is in use, else
\* the name is registered
PostInit(names, name) ==
    IF name \in names
    THEN [ok |-> FALSE, names |-> names]
    ELSE [ok |-> TRUE, names |-> names \cup {name}]

TeamsInit ==
    /\ MatchIdle
    /\ RunPyIdle
    /\ SignalIdle
    /\ BuildIdle
    /\ TableIdle
    /\ AveragedIdle
    /\ NotifyIdle
    /\ RunIdle
    /\ IterIdle
    /\ FightIdle
    /\ ScoreIdle
    /\ PointsIdle
    /\ tPc = "build"
    /\ num_infos \in 0 .. MaxTeams
    /\ info_index = 1
    /\ stage = "check"
    /\ info_name = <<>>
    /\ active = <<>>
    /\ excluded = <<>>
    /\ team_names = {}
    /\ images = <<>>
    /\ infos = <<>>
    /\ match_outcome = "none"
    /\ build_interrupted = FALSE
    /\ exit_index = 0
    /\ live_teams = <<>>
    /\ num_ops = 0
    /\ last_op = NoOp

TeamsUnchanged ==
    /\ UNCHANGED matchVars
    /\ UNCHANGED iterVars
    /\ UNCHANGED fightVars
    /\ UNCHANGED scoreVars

\* the except clause of TeamHandler.build and the next round of its loop
ExcludeAndContinue(name, e, gen, sol) ==
    /\ excluded' = Exclude(excluded, name, e)
    /\ infos' = Append(infos, [name |-> name, generator |-> gen,
                               solver |-> sol, error |-> e.type])
    /\ info_index' = info_index + 1
    /\ stage' = "check"
    /\ info_name' = <<>>

\* TeamInfo.build up to the check of the name: ValueError if it is in use
BuildCheckName ==
    /\ tPc = "build"
    /\ info_index <= num_infos
    /\ stage = "check"
    /\ \E name \in Names :
         IF Normalize(name) \in team_names
         THEN /\ ExcludeAndContinue(name, ValueError, "none", "none")
         ELSE /\ info_name' = name
              /\ stage' = "generator"
              /\ UNCHANGED <<excluded, infos, info_index>>
    /\ UNCHANGED <<tPc, num_infos, active, team_names, images, match_outcome,
                   build_interrupted, exit_index, live_teams, num_ops, last_op>>
    /\ UNCHANGED pointVars
    /\ UNCHANGED runPyVars
    /\ UNCHANGED signalVars
    /\ UNCHANGED buildVars
    /\ UNCHANGED tableVars
    /\ UNCHANGED avgVars
    /\ UNCHANGED notifyVars
    /\ UNCHANGED runVars
    /\ TeamsUnchanged

\* Generator.build: an image, or a DockerError that excludes the team
BuildGenerator ==
    /\ tPc = "build"
    /\ stage = "generator"
    /\ \E gen \in BuildOutcomes :
         IF gen = "ok"
         THEN /\ images' = (Image(info_index, "generator") :> 0) @@ images
              /\ stage' = "solver"
              /\ UNCHANGED <<excluded, infos, info_index, info_name>>
         ELSE /\ images' = images
              /\ ExcludeAndContinue(info_name, DockerError(gen), gen, "none")
    /\ UNCHANGED <<tPc, num_infos, active, team_names, match_outcome,
                   build_interrupted, exit_index, live_teams, num_ops, last_op>>
    /\ UNCHANGED pointVars
    /\ UNCHANGED runPyVars
    /\ UNCHANGED signalVars
    /\ UNCHANGED buildVars
    /\ UNCHANGED tableVars
    /\ UNCHANGED avgVars
    /\ UNCHANGED notifyVars
    /\ UNCHANGED runVars
    /\ TeamsUnchanged

\* Solver.build: on a DockerError the generator's image is removed and the
\* team excluded; else the Team is created and appended to handler.active.
\* The Team is created outside the try block: a ValueError of its
\* __post_init__ leaves both images behind.
BuildSolver ==
    /\ tPc = "build"
    /\ stage = "solver"
    /\ \E sol \in BuildOutcomes :
         IF sol = "ok"
         THEN LET built == (Image(info_index, "solver") :> 0) @@ images
                  post == PostInit(team_names, Normalize(info_name))
                  team == [name |-> Normalize(info_name),
                           generator |-> Image(info_index, "generator"),
                           solver |-> Image(info_index, "solver")]
              IN  /\ images' = built
                  /\ team_names' = post.names
                  /\ IF post.ok
                     THEN /\ active' = Append(active, team)
                          /\ excluded' = excluded
                          /\ infos' = Append(infos,
                                 [name |-> info_name, generator |-> "ok",
                                  solver |-> "ok", error |-> "none"])
                          /\ info_index' = info_index + 1
                          /\ stage' = "check"
                          /\ info_name' = <<>>
                     ELSE /\ active' = active
                          /\ ExcludeAndContinue(info_name, ValueError, "ok", "ok")
         ELSE /\ images' = Remove(images, Image(info_index, "generator"))
              /\ ExcludeAndContinue(info_name, DockerError(sol), "ok", sol)
              /\ UNCHANGED <<active, team_names>>
    /\ UNCHANGED <<tPc, num_infos, match_outcome, build_interrupted,
                   exit_index, live_teams, num_ops, last_op>>
    /\ UNCHANGED pointVars
    /\ UNCHANGED runPyVars
    /\ UNCHANGED signalVars
    /\ UNCHANGED buildVars
    /\ UNCHANGED tableVars
    /\ UNCHANGED avgVars
    /\ UNCHANGED notifyVars
    /\ UNCHANGED runVars
    /\ TeamsUnchanged

\* TeamHandler.build returns the handler and main enters its with block
HandlerBuilt ==
    /\ tPc = "build"
    /\ info_index > num_infos
    /\ tPc' = "match"
    /\ UNCHANGED <<num_infos, info_index, stage, info_name, active, excluded,
                   team_names, images, infos, match_outcome, build_interrupted,
                   exit_index, live_teams, num_ops, last_op>>
    /\ UNCHANGED pointVars
    /\ UNCHANGED runPyVars
    /\ UNCHANGED signalVars
    /\ UNCHANGED buildVars
    /\ UNCHANGED tableVars
    /\ UNCHANGED avgVars
    /\ UNCHANGED notifyVars
    /\ UNCHANGED runVars
    /\ TeamsUnchanged

\* An interrupt while TeamHandler.build is at work.  KeyboardInterrupt is
\* not an Exception: neither the except clause of TeamInfo.build nor that of
\* TeamHandler.build catches it, the handler is never returned, the with
\* block is never entered, and main's except KeyboardInterrupt ends the
\* program.
InterruptBuild ==
    /\ tPc = "build"
    /\ info_index <= num_infos
    /\ build_interrupted' = TRUE
    /\ tPc' = "done"
    /\ UNCHANGED <<num_infos, info_index, stage, info_name, active, excluded,
                   team_names, images, infos, match_outcome, exit_index,
                   live_teams, num_ops, last_op>>
    /\ UNCHANGED pointVars
    /\ UNCHANGED runPyVars
    /\ UNCHANGED signalVars
    /\ UNCHANGED buildVars
    /\ UNCHANGED tableVars
    /\ UNCHANGED avgVars
    /\ UNCHANGED notifyVars
    /\ UNCHANGED runVars
    /\ TeamsUnchanged

\* the body of the with block ends: the match completed, was interrupted
\* (KeyboardInterrupt) or raised; each way TeamHandler.__exit__ is called
MatchEnds ==
    /\ tPc = "match"
    /\ match_outcome' \in {"completed", "interrupted", "raised"}
    /\ tPc' = "exit"
    /\ exit_index' = 1
    /\ UNCHANGED <<num_infos, info_index, stage, info_name, active, excluded,
                   team_names, images, infos, build_interrupted, live_teams,
                   num_ops, last_op>>
    /\ UNCHANGED pointVars
    /\ UNCHANGED runPyVars
    /\ UNCHANGED signalVars
    /\ UNCHANGED buildVars
    /\ UNCHANGED tableVars
    /\ UNCHANGED avgVars
    /\ UNCHANGED notifyVars
    /\ UNCHANGED runVars
    /\ TeamsUnchanged

\* one round of the loop of TeamHandler.__exit__: team.cleanup()
ExitCleanup ==
    /\ tPc = "exit"
    /\ exit_index <= Len(active)
    /\ images' = Cleanup(images, active[exit_index])
    /\ team_names' = team_names \ {active[exit_index].name}
    /\ exit_index' = exit_index + 1
    /\ UNCHANGED <<tPc, num_infos, info_index, stage, info_name, active,
                   excluded, infos, match_outcome, build_interrupted,
                   live_teams, num_ops, last_op>>
    /\ UNCHANGED pointVars
    /\ UNCHANGED runPyVars
    /\ UNCHANGED signalVars
    /\ UNCHANGED buildVars
    /\ UNCHANGED tableVars
    /\ UNCHANGED avgVars
    /\ UNCHANGED notifyVars
    /\ UNCHANGED runVars
    /\ TeamsUnchanged

\* TeamHandler.__exit__ returns and main ends
ExitReturns ==
    /\ tPc = "exit"
    /\ exit_index > Len(active)
    /\ tPc' = "done"
    /\ UNCHANGED <<num_infos, info_index, stage, info_name, active, excluded,
                   team_names, images, infos, match_outcome, build_interrupted,
                   exit_index, live_teams, num_ops, last_op>>
    /\ UNCHANGED pointVars
    /\ UNCHANGED runPyVars
    /\ UNCHANGED signalVars
    /\ UNCHANGED buildVars
    /\ UNCHANGED tableVars
    /\ UNCHANGED avgVars
    /\ UNCHANGED notifyVars
    /\ UNCHANGED runVars
    /\ TeamsUnchanged

TeamsNext ==
    \/ BuildCheckName
    \/ BuildGenerator
    \/ BuildSolver
    \/ HandlerBuilt
    \/ InterruptBuild
    \/ MatchEnds
    \/ ExitCleanup
    \/ ExitReturns

SpecTeams ==
    /\ TeamsInit
    /\ [][TeamsNext]_vars

\* itertools.combinations(s, 2) from the pair of positions (a, b) on
RECURSIVE CombinationsFrom(_, _, _)
CombinationsFrom(s, a, b) ==
    IF a >= Len(s) THEN <<>>
    ELSE IF b > Len(s) THEN CombinationsFrom(s, a + 1, a + 2)
    ELSE <<<<s[a], s[b]>>>> \o CombinationsFrom(s, a, b + 1)

\* a Matchup
Matchup(generator, solver) == [generator |-> generator, solver |-> solver]

\* TeamHandler.grouped_matchups without the mirrored matchup
grouped_matchups_unmirrored(act) ==
    LET groups == CombinationsFrom(act, 1, 2)
    IN  [g \in DOMAIN groups |->
            <<Matchup(groups[g][1], groups[g][2]),
              Matchup(groups[g][1], groups[g][2])>>]

\* TeamHandler.grouped_matchups
grouped_matchups(act) ==
    LET groups == CombinationsFrom(act, 1, 2)
    IN  [g \in DOMAIN groups |->
            <<Matchup(groups[g][1], groups[g][2]),
              Matchup(groups[g][2], groups[g][1])>>]

\* [m for pair in grouped for m in pair]
RECURSIVE Flatten(_)
Flatten(grouped) ==
    IF grouped = <<>> THEN <<>>
    ELSE <<Head(grouped)[1], Head(grouped)[2]>> \o Flatten(Tail(grouped))

\* TeamHandler.matchups
team_matchups(act) ==
    IF Len(act) = 1
    THEN <<Matchup(act[1], act[1])>>
    ELSE Flatten(grouped_matchups(act))

(***************************************************************************)
(* Teams created and cleaned up in any order: Team.__post_init__ and       *)
(* Team.cleanup on the registry _team_names.                               *)
(***************************************************************************)
NamesInit ==
    /\ MatchIdle
    /\ RunPyIdle
    /\ SignalIdle
    /\ BuildIdle
    /\ TableIdle
    /\ AveragedIdle
    /\ NotifyIdle
    /\ RunIdle
    /\ IterIdle
    /\ FightIdle
    /\ ScoreIdle
    /\ PointsIdle
    /\ tPc = "names"
    /\ num_infos = 0
    /\ info_index = 0
    /\ stage = "none"
    /\ info_name = <<>>
    /\ active = <<>>
    /\ excluded = <<>>
    /\ team_names = {}
    /\ images = <<>>
    /\ infos = <<>>
    /\ match_outcome = "none"
    /\ build_interrupted = FALSE
    /\ exit_index = 0
    /\ live_teams = <<>>
    /\ num_ops = 0
    /\ last_op = NoOp

\* the sequence s without its k-th element
RemoveAt(s, k) == SubSeq(s, 1, k - 1) \o SubSeq(s, k + 1, Len(s))

\* Team(name, generator, solver) with two built images
CreateTeam ==
    /\ tPc = "names"
    /\ num_ops < MaxOps
    /\ \E name \in Names :
         LET post == PostInit(team_names, Normalize(name))
             team == [name |-> Normalize(name),
                      generator |-> Image(num_ops + 1, "generator"),
                      solver |-> Image(num_ops + 1, "solver")]
         IN  /\ team_names' = post.names
             /\ live_teams' = IF post.ok THEN Append(live_teams, team)
                              ELSE live_teams
             /\ images' = IF post.ok
                          THEN (team.generator :> 0) @@ (team.solver :> 0) @@ images
                          ELSE images
             /\ last_op' = [op |-> "create", name |-> Normalize(name),
                            ok |-> post.ok]
    /\ num_ops' = num_ops + 1
    /\ UNCHANGED <<tPc, num_infos, info_index, stage, info_name, active,
                   excluded, infos, match_outcome, build_interrupted,
                   exit_index>>
    /\ UNCHANGED pointVars
    /\ UNCHANGED runPyVars
    /\ UNCHANGED signalVars
    /\ UNCHANGED buildVars
    /\ UNCHANGED tableVars
    /\ UNCHANGED avgVars
    /\ UNCHANGED notifyVars
    /\ UNCHANGED runVars
    /\ TeamsUnchanged

\* team.cleanup() of a live team
CleanupTeam ==
    /\ tPc = "names"
    /\ num_ops < MaxOps
    /\ \E k \in DOMAIN live_teams :
         /\ images' = Cleanup(images, live_teams[k])
         /\ team_names' = team_names \ {live_teams[k].name}
         /\ live_teams' = RemoveAt(live_teams, k)
         /\ last_op' = [op |-> "cleanup", name |-> live_teams[k].name,
                        ok |-> TRUE]
    /\ num_ops' = num_ops + 1
    /\ UNCHANGED <<tPc, num_infos, info_index, stage, info_name, active,
                   excluded, infos, match_outcome, build_interrupted,
                   exit_index>>
    /\ UNCHANGED pointVars
    /\ UNCHANGED runPyVars
    /\ UNCHANGED signalVars
    /\ UNCHANGED buildVars
    /\ UNCHANGED tableVars
    /\ UNCHANGED avgVars
    /\ UNCHANGED notifyVars
    /\ UNCHANGED runVars
    /\ TeamsUnchanged

NamesNext ==
    \/ CreateTeam
    \/ CleanupTeam

SpecNames ==
    /\ NamesInit
    /\ [][NamesNext]_vars

-----------------------------------------------------------------------------
(***************************************************************************)
(* The points of a match: Match.calculate_points of                        *)
(* src/algobattle/match.py on the handler that TeamHandler.build produces: *)
(* active is a list of Teams and excluded a dict from names to exceptions. *)
(* With two or more active teams line 98 evaluates                         *)
(*     self.teams.active + self.teams.excluded,                            *)
(* a list plus a dict, which raises TypeError: the lines after it, the     *)
(* split of the points among the pairs, are never reached.                 *)
(***************************************************************************)
\* the names of the teams that are active when the points are calculated
ActivePool == << <<"a", " ">>, <<"b">>, <<"c">> >>

\* config.points; main calls calculate_points only when it is positive
PointsValues == {1, 50, 100}

\* battle.score() of a finished battle
BattleScores == 0 .. MaxBattleScore

\* the Team built from the k-th info, with the given name
TeamOf(k, name) ==
    [name |-> Normalize(name),
     generator |-> Image(k, "generator"),
     solver |-> Image(k, "solver")]

\* the functions from a subset of S with at most `most' elements to T
PartialFunctions(S, most, T) ==
    UNION {[D -> T] : D \in {E \in SUBSET S : Cardinality(E) <= most}}

PointsInit ==
    /\ MatchIdle
    /\ RunPyIdle
    /\ SignalIdle
    /\ BuildIdle
    /\ TableIdle
    /\ AveragedIdle
    /\ NotifyIdle
    /\ RunIdle
    /\ IterIdle
    /\ FightIdle
    /\ ScoreIdle
    /\ tPc = "idle"
    /\ num_infos = 0
    /\ info_index = 0
    /\ stage = "none"
    /\ info_name = <<>>
    /\ \E count \in 0 .. MaxActive :
         active = [k \in 1 .. count |-> TeamOf(k, ActivePool[k])]
    /\ excluded \in PartialFunctions(Names, MaxExcluded,
                                     {ValueError, DockerError("failed")})
    /\ team_names = {active[k].name : k \in DOMAIN active}
    /\ images = <<>>
    /\ infos = <<>>
    /\ match_outcome = "none"
    /\ build_interrupted = FALSE
    /\ exit_index = 0
    /\ live_teams = <<>>
    /\ num_ops = 0
    /\ last_op = NoOp
    /\ ptPc = "start"
    /\ achievable_points \in PointsValues
    /\ scoring_team \in {"generator", "solver"}
    /\ battle_results \in
          LET ms == team_matchups(active)
          IN  PartialFunctions({ms[k] : k \in DOMAIN ms}, Len(ms), BattleScores)
    /\ points_table = <<>>

\* calculate_points that gives a single active team nothing
calculate_points_nothing(act, excl, pts) ==
    IF Len(act) = 0 THEN [raised |-> "none", table |-> <<>>]
    ELSE IF Len(act) = 1
    THEN [raised |-> "none", table |-> (act[1].name :> 0)]
    ELSE [raised |-> "TypeError", table |-> <<>>]

\* Match.calculate_points: the empty table without active teams, all the
\* points for a single active team, and else the TypeError of line 98
calculate_points(act, excl, pts) ==
    IF Len(act) = 0 THEN [raised |-> "none", table |-> <<>>]
    ELSE IF Len(act) = 1
    THEN [raised |-> "none", table |-> (act[1].name :> pts)]
    ELSE [raised |-> "TypeError", table |-> <<>>]

\* the call match.calculate_points()
CalculatePoints ==
    /\ ptPc = "start"
    /\ LET result == calculate_points(active, excluded, achievable_points)
       IN  /\ points_table' = result.table
           /\ ptPc' = IF result.raised = "none" THEN "returned" ELSE "raised"
    /\ UNCHANGED <<achievable_points, scoring_team, battle_results>>
    /\ UNCHANGED teamVars
    /\ UNCHANGED runPyVars
    /\ UNCHANGED signalVars
    /\ UNCHANGED buildVars
    /\ UNCHANGED tableVars
    /\ UNCHANGED avgVars
    /\ UNCHANGED notifyVars
    /\ UNCHANGED runVars
    /\ TeamsUnchanged

PointsNext ==
    \/ CalculatePoints

\* calculate_points has ended, by returning a table or with an exception
PointsEnded == ptPc \in {"returned", "raised"}

SpecPoints ==
    /\ PointsInit
    /\ [][PointsNext]_vars

-----------------------------------------------------------------------------
(***************************************************************************)
(* A container run: Image.run of src/algobattle/docker.py.  The container  *)
(* is run by a `docker run` subprocess; the except clauses decide what the *)
(* call will return or raise, the finally clause runs `docker kill` on the *)
(* container's name, and then the call ends.                               *)
(***************************************************************************)

\* what a container can have written to its stdout
Outputs == {[k \in 1 .. len |-> "x"] : len \in 0 .. MaxOutput}

\* the ways subprocess.run can end for `docker run` (check=True): exit
\* status 0, the time limit, a nonzero exit status, or any other exception
\* (the subprocess could not be started)
ProcessOutcomes == {"completed", "TimeoutExpired", "CalledProcessError",
                    "OSError"}

\* the ways subprocess.run can end for `docker kill` (check=True, no time
\* limit): exit status 0, a nonzero exit status with or without
\* "No such container" in stderr, or any other exception
KillOutcomes == {"killed", "No such container", "CalledProcessError",
                 "OSError"}

\* what Image.run hands to its caller
Return(stdout) == [kind |-> "return", stdout |-> stdout, error |-> "none"]

Raise(error) == [kind |-> "raise", stdout |-> << >>, error |-> error]

RunInit ==
    /\ MatchIdle
    /\ RunPyIdle
    /\ SignalIdle
    /\ BuildIdle
    /\ TableIdle
    /\ AveragedIdle
    /\ NotifyIdle
    /\ IterIdle
    /\ FightIdle
    /\ ScoreIdle
    /\ TeamIdle
    /\ PointsIdle
    /\ rPc = "start"
    /\ timeout \in BOOLEAN
    /\ process = [kind |-> "none", stdout |-> << >>]
    /\ container = "none"
    /\ pending = Return(<< >>)
    /\ kill_outcome = "none"
    /\ kill_attempts = 0
    /\ kill_warning = FALSE
    /\ run_exit = [kind |-> "none", stdout |-> << >>, error |-> "none"]

\* the try block and its except clauses: the container is run by a
\* subprocess; when the time limit expires subprocess.run ends the docker
\* client, which can leave the container running, and Image.run will return
\* ""; any other exception will be raised as a DockerError
RunContainer ==
    /\ rPc = "start"
    /\ \E kind \in ProcessOutcomes, stdout \in Outputs, left \in BOOLEAN :
         /\ kind = "TimeoutExpired" => timeout
         /\ kind = "OSError" => stdout = << >>
         /\ kind # "TimeoutExpired" => ~left
         /\ process' = [kind |-> kind, stdout |-> stdout]
         /\ container' = IF kind = "OSError" THEN "none"
                         ELSE IF kind = "TimeoutExpired" /\ left
                         THEN "running"
                         ELSE "gone"
         /\ pending' = IF kind = "completed" THEN Return(stdout)
                       ELSE IF kind = "TimeoutExpired" THEN Return(<< >>)
                       ELSE Raise("DockerError")
    /\ rPc' = "finally"
    /\ UNCHANGED <<timeout, kill_outcome, kill_attempts, kill_warning,
                   run_exit>>
    /\ UNCHANGED matchVars
    /\ UNCHANGED runPyVars
    /\ UNCHANGED signalVars
    /\ UNCHANGED buildVars
    /\ UNCHANGED tableVars
    /\ UNCHANGED avgVars
    /\ UNCHANGED notifyVars
    /\ UNCHANGED iterVars
    /\ UNCHANGED fightVars
    /\ UNCHANGED scoreVars
    /\ UNCHANGED teamVars
    /\ UNCHANGED pointVars

\* the finally clause: `docker kill` is run on the container's name; a
\* CalledProcessError is caught, and logged unless its stderr says that there
\* is no such container; any other exception leaves the finally clause
KillContainer ==
    /\ rPc = "finally"
    /\ \E outcome \in KillOutcomes :
         /\ outcome = "killed" => container = "running"
         /\ outcome = "No such container" => container # "running"
         /\ kill_outcome' = outcome
         /\ container' = IF outcome = "killed" THEN "gone" ELSE container
         /\ kill_warning' = (outcome = "CalledProcessError")
    /\ kill_attempts' = kill_attempts + 1
    /\ rPc' = "exit"
    /\ UNCHANGED <<timeout, process, pending, run_exit>>
    /\ UNCHANGED matchVars
    /\ UNCHANGED runPyVars
    /\ UNCHANGED signalVars
    /\ UNCHANGED buildVars
    /\ UNCHANGED tableVars
    /\ UNCHANGED avgVars
    /\ UNCHANGED notifyVars
    /\ UNCHANGED iterVars
    /\ UNCHANGED fightVars
    /\ UNCHANGED scoreVars
    /\ UNCHANGED teamVars
    /\ UNCHANGED pointVars

\* control leaves Image.run: with the exception that left the finally
\* clause, or else with what the try block and its except clauses decided
RunExit ==
    /\ rPc = "exit"
    /\ run_exit' = IF kill_outcome = "OSError" THEN Raise("OSError")
                   ELSE pending
    /\ rPc' = "exited"
    /\ UNCHANGED <<timeout, process, container, pending, kill_outcome,
                   kill_attempts, kill_warning>>
    /\ UNCHANGED matchVars
    /\ UNCHANGED runPyVars
    /\ UNCHANGED signalVars
    /\ UNCHANGED buildVars
    /\ UNCHANGED tableVars
    /\ UNCHANGED avgVars
    /\ UNCHANGED notifyVars
    /\ UNCHANGED iterVars
    /\ UNCHANGED fightVars
    /\ UNCHANGED scoreVars
    /\ UNCHANGED teamVars
    /\ UNCHANGED pointVars

RunNext ==
    \/ RunContainer
    \/ KillContainer
    \/ RunExit

SpecRun == RunInit /\ [][RunNext]_vars

-----------------------------------------------------------------------------
(***************************************************************************)
(* Observers: Subject of src/algobattle/events.py and the attach, detach   *)
(* and notify of BattleWrapper (src/algobattle/battle_wrapper.py).  notify *)
(* calls the update of each attached observer in turn, in the notifier's   *)
(* own thread of control; an update returns, raises, or does not return.   *)
(***************************************************************************)

ObserverIds == 1 .. MaxObservers

\* how a call of observer.update can end
UpdateOutcomes == {"returns", "raises", "blocks"}

\* list.remove: the list without the first occurrence of o
RemoveFirst(list, o) ==
    LET first == CHOOSE k \in DOMAIN list :
                    list[k] = o /\ \A l \in 1 .. k - 1 : list[l] # o
    IN  [k \in 1 .. Len(list) - 1 |-> IF k < first THEN list[k] ELSE list[k + 1]]

NotifyInit ==
    /\ MatchIdle
    /\ RunPyIdle
    /\ SignalIdle
    /\ BuildIdle
    /\ TableIdle
    /\ AveragedIdle
    /\ IterIdle
    /\ FightIdle
    /\ ScoreIdle
    /\ TeamIdle
    /\ PointsIdle
    /\ RunIdle
    /\ subject \in {"Subject", "BattleWrapper"}
    /\ observers = << >>
    /\ nPc = "ready"
    /\ notify_index = 0
    /\ delivered = << >>
    /\ call_error = "none"
    /\ num_calls = 0

NotifyUnchanged ==
    /\ UNCHANGED matchVars
    /\ UNCHANGED runPyVars
    /\ UNCHANGED signalVars
    /\ UNCHANGED buildVars
    /\ UNCHANGED tableVars
    /\ UNCHANGED avgVars
    /\ UNCHANGED iterVars
    /\ UNCHANGED fightVars
    /\ UNCHANGED scoreVars
    /\ UNCHANGED teamVars
    /\ UNCHANGED pointVars
    /\ UNCHANGED runVars

\* attach: Subject appends the observer unless it is attached already,
\* BattleWrapper appends it in any case
Attach(o) ==
    /\ nPc = "ready"
    /\ num_calls < MaxCalls
    /\ Len(observers) < MaxObservers
    /\ observers' = IF subject = "Subject" /\ \E k \in DOMAIN observers :
                                                 observers[k] = o
                    THEN observers
                    ELSE Append(observers, o)
    /\ call_error' = "none"
    /\ num_calls' = num_calls + 1
    /\ UNCHANGED <<subject, nPc, notify_index, delivered>>
    /\ NotifyUnchanged

\* detach: list.remove takes out the first occurrence; when there is none
\* its ValueError is swallowed by Subject and raised by BattleWrapper
Detach(o) ==
    /\ nPc = "ready"
    /\ num_calls < MaxCalls
    /\ IF \E k \in DOMAIN observers : observers[k] = o
       THEN /\ observers' = RemoveFirst(observers, o)
            /\ call_error' = "none"
       ELSE /\ observers' = observers
            /\ call_error' = IF subject = "Subject" THEN "none"
                             ELSE "ValueError"
    /\ num_calls' = num_calls + 1
    /\ UNCHANGED <<subject, nPc, notify_index, delivered>>
    /\ NotifyUnchanged

\* notify is called: the for loop over the observers begins
NotifyCalled ==
    /\ nPc = "ready"
    /\ num_calls < MaxCalls
    /\ nPc' = "notifying"
    /\ notify_index' = 1
    /\ delivered' = << >>
    /\ call_error' = "none"
    /\ num_calls' = num_calls + 1
    /\ UNCHANGED <<subject, observers>>
    /\ NotifyUnchanged

\* one pass of the for loop: observer.update is called and notify waits for
\* it; its exception leaves notify, and while it does not return notify
\* does not go on
Update ==
    /\ nPc = "notifying"
    /\ notify_index <= Len(observers)
    /\ \E outcome \in UpdateOutcomes :
         /\ delivered' = Append(delivered, observers[notify_index])
         /\ CASE outcome = "returns" ->
                    /\ notify_index' = notify_index + 1
                    /\ UNCHANGED <<nPc, call_error>>
              [] outcome = "raises" ->
                    /\ nPc' = "raised"
                    /\ call_error' = "update"
                    /\ UNCHANGED notify_index
              [] outcome = "blocks" ->
                    /\ nPc' = "blocked"
                    /\ UNCHANGED <<notify_index, call_error>>
    /\ UNCHANGED <<subject, observers, num_calls>>
    /\ NotifyUnchanged

\* an update that did not return for a while returns after all
UpdateResumes ==
    /\ nPc = "blocked"
    /\ nPc' = "notifying"
    /\ notify_index' = notify_index + 1
    /\ UNCHANGED <<subject, observers, delivered, call_error, num_calls>>
    /\ NotifyUnchanged

\* the for loop is exhausted: notify returns
NotifyReturns ==
    /\ nPc = "notifying"
    /\ notify_index > Len(observers)
    /\ nPc' = "returned"
    /\ UNCHANGED <<subject, observers, notify_index, delivered, call_error,
                   num_calls>>
    /\ NotifyUnchanged

\* the caller of notify goes on after the call has returned or raised
CallerGoesOn ==
    /\ nPc \in {"returned", "raised"}
    /\ nPc' = "ready"
    /\ UNCHANGED <<subject, observers, notify_index, delivered, call_error,
                   num_calls>>
    /\ NotifyUnchanged

NotifyNext ==
    \/ \E o \in ObserverIds : Attach(o)
    \/ \E o \in ObserverIds : Detach(o)
    \/ NotifyCalled
    \/ Update
    \/ UpdateResumes
    \/ NotifyReturns
    \/ CallerGoesOn

SpecNotify == NotifyInit /\ [][NotifyNext]_vars

-----------------------------------------------------------------------------
(***************************************************************************)
(* The averaged battle: Averaged.wrapper and the valuation of a round in   *)
(* Averaged.calculate_points (src/algobattle/battle_wrappers/averaged.py). *)
(* A fight returns its approximation ratio, 0.0 for a fight the solver     *)
(* lost; ratios are fractions <<p, q>> with q > 0.                         *)
(***************************************************************************)

RECURSIVE Gcd(_, _)
Gcd(a, b) == IF b = 0 THEN a ELSE Gcd(b, a % b)

\* what match._one_fight can return: 0.0, or a positive ratio
ApproxRatios ==
    {<<0, 1>>} \cup {<<p, q>> \in (1 .. MaxRatio) \X (1 .. MaxRatio) :
                        Gcd(p, q) = 1}

\* arithmetic of fractions
RatAdd(x, y) == <<x[1] * y[2] + y[1] * x[2], x[2] * y[2]>>

RatEq(x, y) == x[1] * y[2] = y[1] * x[2]

RatLeq(x, y) == x[1] * y[2] <= y[1] * x[2]

\* 1 / x if x != 0 else 0
Reciprocal(x) == IF x[1] # 0 THEN <<x[2], x[1]>> ELSE <<0, 1>>

\* sum(ratios)
RECURSIVE Sum(_)
Sum(ratios) ==
    IF ratios = << >> THEN <<0, 1>>
    ELSE RatAdd(Head(ratios), Sum(Tail(ratios)))

\* sum(1 / x if x != 0 else 0 for x in ratios)
RECURSIVE SumOfReciprocals(_)
SumOfReciprocals(ratios) ==
    IF ratios = << >> THEN <<0, 1>>
    ELSE RatAdd(Reciprocal(Head(ratios)), SumOfReciprocals(Tail(ratios)))

\* the valuation of a round, as it would be if the sum of the reciprocals
\* were divided by the number of fights the solver did not lose
valuation_of_solved(ratios) ==
    LET solved == SelectSeq(ratios, LAMBDA x : x[1] # 0)
        total == SumOfReciprocals(ratios)
    IN  IF ratios # << >> /\ Sum(ratios)[1] # 0
        THEN <<total[1], total[2] * Len(solved)>>
        ELSE <<0, 1>>

\* the valuation of a round: the sum of the reciprocals of its ratios,
\* divided by the number of its ratios; 0 without ratios or when they sum
\* to 0
valuation_of(ratios) ==
    LET total == SumOfReciprocals(ratios)
    IN  IF ratios # << >> /\ Sum(ratios)[1] # 0
        THEN <<total[1], total[2] * Len(ratios)>>
        ELSE <<0, 1>>

AveragedInit ==
    /\ MatchIdle
    /\ RunPyIdle
    /\ SignalIdle
    /\ BuildIdle
    /\ TableIdle
    /\ IterIdle
    /\ FightIdle
    /\ ScoreIdle
    /\ TeamIdle
    /\ PointsIdle
    /\ RunIdle
    /\ NotifyIdle
    /\ aPc = "fighting"
    /\ approx_iters \in 0 .. MaxIters
    /\ approx_inst_size \in 1 .. MaxFightSize
    /\ iteration = 0
    /\ fights = << >>
    /\ approx_ratios = << >>
    /\ valuation = <<0, 1>>

AveragedUnchanged ==
    /\ UNCHANGED matchVars
    /\ UNCHANGED runPyVars
    /\ UNCHANGED signalVars
    /\ UNCHANGED buildVars
    /\ UNCHANGED tableVars
    /\ UNCHANGED iterVars
    /\ UNCHANGED fightVars
    /\ UNCHANGED scoreVars
    /\ UNCHANGED teamVars
    /\ UNCHANGED pointVars
    /\ UNCHANGED runVars
    /\ UNCHANGED notifyVars

\* one pass of the for loop, as it would be if the battle ended with the
\* first fight the solver lost
AveragedFightUntilLost ==
    /\ aPc = "fighting"
    /\ iteration < approx_iters
    /\ \E approx_ratio \in ApproxRatios :
         /\ fights' = Append(fights, [size |-> approx_inst_size,
                                      ratio |-> approx_ratio])
         /\ approx_ratios' = Append(approx_ratios, approx_ratio)
         /\ aPc' = IF approx_ratio[1] = 0 THEN "done" ELSE aPc
    /\ iteration' = iteration + 1
    /\ UNCHANGED <<approx_iters, approx_inst_size, valuation>>
    /\ AveragedUnchanged

\* one pass of the for loop: a fight at approx_inst_size, whose ratio is
\* appended to the round's approx_ratios
AveragedFight ==
    /\ aPc = "fighting"
    /\ iteration < approx_iters
    /\ \E approx_ratio \in ApproxRatios :
         /\ fights' = Append(fights, [size |-> approx_inst_size,
                                      ratio |-> approx_ratio])
         /\ approx_ratios' = Append(approx_ratios, approx_ratio)
    /\ iteration' = iteration + 1
    /\ UNCHANGED <<aPc, approx_iters, approx_inst_size, valuation>>
    /\ AveragedUnchanged

\* the for loop is exhausted: wrapper returns
AveragedReturns ==
    /\ aPc = "fighting"
    /\ iteration >= approx_iters
    /\ aPc' = "done"
    /\ UNCHANGED <<approx_iters, approx_inst_size, iteration, fights,
                   approx_ratios, valuation>>
    /\ AveragedUnchanged

\* calculate_points computes the valuation of the round for the solver
CalculateValuation ==
    /\ aPc = "done"
    /\ valuation' = valuation_of(approx_ratios)
    /\ aPc' = "scored"
    /\ UNCHANGED <<approx_iters, approx_inst_size, iteration, fights,
                   approx_ratios>>
    /\ AveragedUnchanged

AveragedNext ==
    \/ AveragedFight
    \/ AveragedReturns
    \/ CalculateValuation

SpecAveraged == AveragedInit /\ [][AveragedNext]_vars

-----------------------------------------------------------------------------
(***************************************************************************)
(* Formatting a table: Table.format of src/algobattle/util.py and          *)
(* _format_table of src/algobattle/ui.py.  A table is the sequence of its  *)
(* rows, the column names first; an entry is the length of its string.     *)
(***************************************************************************)

\* the lengths an entry's string can have
EntryLengths == {1, MaxEntry}

Max(a, b) == IF a >= b THEN a ELSE b

Min(a, b) == IF a <= b THEN a ELSE b

RECURSIVE SumSeq(_)
SumSeq(s) == IF s = << >> THEN 0 ELSE Head(s) + SumSeq(Tail(s))

\* the largest entry of column c in the given rows
RECURSIVE LongestEntry(_, _)
LongestEntry(rows, c) ==
    IF rows = << >> THEN 0
    ELSE Max(Head(rows)[c], LongestEntry(Tail(rows), c))

\* the rows that are formatted: Table.format keeps the column names and at
\* most max_height - 1 data rows, _format_table keeps every row
ShownRows(impl, rows, height) ==
    IF impl = "Table.format"
    THEN SubSeq(rows, 1, 1 + Max(0, Min(Len(rows) - 1, height - 1)))
    ELSE rows

\* col_widths: the width of a column is that of its longest entry, and at
\* least 5 for a data column
ColWidths(rows, header_cols) ==
    [c \in 1 .. Len(rows[1]) |->
        IF c > header_cols THEN Max(MinDataWidth, LongestEntry(rows, c))
        ELSE LongestEntry(rows, c)]

\* vertical_sep_width
VerticalSepWidth(col_widths, border, width) ==
    IF SumSeq(col_widths) + 3 * (Len(col_widths) - 1)
          + (IF border THEN 4 ELSE 0) <= width
    THEN 3
    ELSE 1

\* the loop of Table.format over the columns from column c on: the unused
\* width shrinks by every column, and num_cols is set at every column that
\* finds it negative
RECURSIVE UnusedWidthLoop(_, _, _, _, _)
UnusedWidthLoop(col_widths, sep, c, unused_width, num_cols) ==
    IF c > Len(col_widths) THEN num_cols
    ELSE LET unused == unused_width - (col_widths[c] + sep)
         IN  UnusedWidthLoop(col_widths, sep, c + 1, unused,
                             IF unused < 0 THEN c - 1 ELSE num_cols)

\* the loop of _format_table over the columns from column c on: it ends at
\* the first column that makes the used width exceed the maximum
RECURSIVE UsedWidthLoop(_, _, _, _, _)
UsedWidthLoop(col_widths, sep, c, used_width, width) ==
    IF c > Len(col_widths) THEN Len(col_widths)
    ELSE LET used == used_width + col_widths[c] + sep
         IN  IF used > width THEN c - 1
             ELSE UsedWidthLoop(col_widths, sep, c + 1, used, width)

\* num_cols: the number of columns that are kept
NumCols(impl, col_widths, sep, width) ==
    IF impl = "Table.format"
    THEN UnusedWidthLoop(col_widths, sep, 1,
                         width - 2 * ((sep + 1) \div 2) + sep,
                         Len(col_widths))
    ELSE UsedWidthLoop(col_widths, sep, 1, 1, width)

\* the length of a line made by data_fmt or horizontal_sep_fmt from cells of
\* the given lengths: a cell is padded to the width of its column and never
\* cut, cells are joined by a separator with its padding, and a border adds
\* the two ends with their padding
LineLength(cells, col_widths, sep, border) ==
    LET padding == sep \div 2
        padded == [c \in 1 .. Len(col_widths) |-> Max(cells[c], col_widths[c])]
    IN  SumSeq(padded)
           + (IF Len(col_widths) > 0
              THEN (Len(col_widths) - 1) * (1 + 2 * padding) ELSE 0)
           + (IF border THEN 2 + 2 * padding ELSE 0)

\* the lengths of the lines of the formatted table
FormatLineLengths(impl, rows, header_cols, width, height) ==
    LET num_rows == Len(rows) - 1
        h == IF impl = "Table.format" THEN height
             ELSE Max(num_rows + 1, height)
        border == 4 + num_rows <= h
        horizontal_header_sep == 2 + num_rows <= h
        shown == ShownRows(impl, rows, h)
        all_widths == ColWidths(shown, header_cols)
        sep == VerticalSepWidth(all_widths, border, width)
        num_cols == NumCols(impl, all_widths, sep, width)
        col_widths == SubSeq(all_widths, 1, num_cols)
    IN  {LineLength(shown[r], col_widths, sep, border) : r \in DOMAIN shown}
           \cup (IF horizontal_header_sep \/ border
                 THEN {LineLength(col_widths, col_widths, sep, border)}
                 ELSE {})

TableInit ==
    /\ MatchIdle
    /\ RunPyIdle
    /\ SignalIdle
    /\ BuildIdle
    /\ IterIdle
    /\ FightIdle
    /\ ScoreIdle
    /\ TeamIdle
    /\ PointsIdle
    /\ RunIdle
    /\ NotifyIdle
    /\ AveragedIdle
    /\ tbPc = "table"
    /\ implementation \in {"Table.format", "_format_table"}
    /\ \E cols \in 1 .. MaxCols, num_rows \in 1 .. MaxRows :
         table_rows \in [1 .. num_rows + 1 -> [1 .. cols -> EntryLengths]]
    /\ num_header_cols \in 0 .. 1
    /\ max_width \in 0 .. MaxWidth
    /\ max_height \in 1 .. MaxHeight
    /\ line_lengths = {}

\* the table is formatted
Format ==
    /\ tbPc = "table"
    /\ line_lengths' = FormatLineLengths(implementation, table_rows,
                                         num_header_cols, max_width,
                                         max_height)
    /\ tbPc' = "formatted"
    /\ UNCHANGED <<implementation, table_rows, num_header_cols, max_width,
                   max_height>>
    /\ UNCHANGED matchVars
    /\ UNCHANGED runPyVars
    /\ UNCHANGED signalVars
    /\ UNCHANGED buildVars
    /\ UNCHANGED iterVars
    /\ UNCHANGED fightVars
    /\ UNCHANGED scoreVars
    /\ UNCHANGED teamVars
    /\ UNCHANGED pointVars
    /\ UNCHANGED runVars
    /\ UNCHANGED notifyVars
    /\ UNCHANGED avgVars

TableNext == Format

SpecTable == TableInit /\ [][TableNext]_vars

-----------------------------------------------------------------------------
(***************************************************************************)
(* Calls of TeamInfo.build of src/algobattle/team.py that run as tasks of  *)
(* one event loop.  A call runs without interruption from one await to     *)
(* the next: from its start to await Generator.build, from there to await  *)
(* Solver.build, and from there through Team(...) to its return.           *)
(***************************************************************************)
BuildCalls == 1 .. MaxBuilds

BuildsInit ==
    /\ MatchIdle
    /\ RunPyIdle
    /\ SignalIdle
    /\ IterIdle
    /\ FightIdle
    /\ ScoreIdle
    /\ TeamIdle
    /\ PointsIdle
    /\ RunIdle
    /\ NotifyIdle
    /\ AveragedIdle
    /\ TableIdle
    /\ bPc = [p \in BuildCalls |-> "check"]
    /\ build_names \in [BuildCalls -> Names]
    /\ built_images = << >>
    /\ registered_names = {}
    /\ build_error = [p \in BuildCalls |-> "none"]

BuildsUnchanged ==
    /\ UNCHANGED matchVars
    /\ UNCHANGED runPyVars
    /\ UNCHANGED signalVars
    /\ UNCHANGED iterVars
    /\ UNCHANGED fightVars
    /\ UNCHANGED scoreVars
    /\ UNCHANGED teamVars
    /\ UNCHANGED pointVars
    /\ UNCHANGED runVars
    /\ UNCHANGED notifyVars
    /\ UNCHANGED avgVars
    /\ UNCHANGED tableVars

\* TeamInfo.build up to await Generator.build: ValueError if the normalized
\* name is in _team_names
TeamInfoBuildCheck(p) ==
    /\ bPc[p] = "check"
    /\ IF Normalize(build_names[p]) \in registered_names
       THEN /\ bPc' = [bPc EXCEPT ![p] = "raised"]
            /\ build_error' = [build_error EXCEPT ![p] = "ValueError"]
       ELSE /\ bPc' = [bPc EXCEPT ![p] = "generator"]
            /\ build_error' = build_error
    /\ UNCHANGED <<build_names, built_images, registered_names>>
    /\ BuildsUnchanged

\* await Generator.build ends: with an image, or with a DockerError that
\* leaves TeamInfo.build
TeamInfoBuildGenerator(p) ==
    /\ bPc[p] = "generator"
    /\ \E gen \in BuildOutcomes :
         IF gen = "ok"
         THEN /\ built_images' = (Image(p, "generator") :> 0) @@ built_images
              /\ bPc' = [bPc EXCEPT ![p] = "solver"]
              /\ build_error' = build_error
         ELSE /\ built_images' = built_images
              /\ bPc' = [bPc EXCEPT ![p] = "raised"]
              /\ build_error' = [build_error EXCEPT ![p] = "DockerError"]
    /\ UNCHANGED <<build_names, registered_names>>
    /\ BuildsUnchanged

\* await Solver.build ends: on a DockerError the except clause removes the
\* generator's image and raises again; else Team(name, generator, solver)
\* is created after the try statement, and the ValueError of its
\* __post_init__ leaves TeamInfo.build
TeamInfoBuildSolver(p) ==
    /\ bPc[p] = "solver"
    /\ \E sol \in BuildOutcomes :
         IF sol = "ok"
         THEN LET post == PostInit(registered_names, Normalize(build_names[p]))
              IN  /\ built_images' = (Image(p, "solver") :> 0) @@ built_images
                  /\ registered_names' = post.names
                  /\ bPc' = [bPc EXCEPT ![p] = IF post.ok THEN "returned"
                                               ELSE "raised"]
                  /\ build_error' = [build_error EXCEPT ![p] =
                                        IF post.ok THEN "none" ELSE "ValueError"]
         ELSE /\ built_images' = Remove(built_images, Image(p, "generator"))
              /\ registered_names' = registered_names
              /\ bPc' = [bPc EXCEPT ![p] = "raised"]
              /\ build_error' = [build_error EXCEPT ![p] = "DockerError"]
    /\ UNCHANGED build_names
    /\ BuildsUnchanged

BuildsNext ==
    \/ \E p \in BuildCalls : TeamInfoBuildCheck(p)
    \/ \E p \in BuildCalls : TeamInfoBuildGenerator(p)
    \/ \E p \in BuildCalls : TeamInfoBuildSolver(p)

SpecBuilds ==
    /\ BuildsInit
    /\ [][BuildsNext]_vars

-----------------------------------------------------------------------------
(***************************************************************************)
(* SIGINT during a fight: signal_handler and                               *)
(* _kill_spawned_docker_containers of src/match.py, and the lines of       *)
(* _one_fight that start a container and set latest_running_docker_image.  *)
(* Python runs a signal handler between two bytecode instructions of the   *)
(* main thread, so the signal can arrive between any two statements.  An   *)
(* image is a role with a group number.                                    *)
(***************************************************************************)
\* the group numbers of the teams: nonnegative ints
GroupNumbers == 0 .. MaxGroupNumber

DockerImages == {"generator", "solver"} \X GroupNumbers

\* "generator" + str(generating_team)
GeneratorImage == <<"generator", group_numbers[1]>>

\* "solver" + str(solving_team)
SolverImage == <<"solver", group_numbers[2]>>

\* Match._one_fight is entered; latest_running_docker_image is "" in the
\* first fight and the image of an earlier fight's last container later on
SignalInit ==
    /\ MatchIdle
    /\ RunPyIdle
    /\ IterIdle
    /\ FightIdle
    /\ ScoreIdle
    /\ TeamIdle
    /\ PointsIdle
    /\ RunIdle
    /\ NotifyIdle
    /\ AveragedIdle
    /\ TableIdle
    /\ BuildIdle
    /\ sgPc = "gen_popen"
    /\ group_numbers \in {pair \in GroupNumbers \X GroupNumbers :
                               pair[1] # pair[2]}
    /\ latest_image \in {""} \cup {image \in DockerImages :
                                      \/ image[2] = group_numbers[1]
                                      \/ image[2] = group_numbers[2]}
    /\ containers = {}
    /\ in_flight = {}
    /\ stopped = {}

SignalUnchanged ==
    /\ UNCHANGED matchVars
    /\ UNCHANGED runPyVars
    /\ UNCHANGED iterVars
    /\ UNCHANGED fightVars
    /\ UNCHANGED scoreVars
    /\ UNCHANGED teamVars
    /\ UNCHANGED pointVars
    /\ UNCHANGED runVars
    /\ UNCHANGED notifyVars
    /\ UNCHANGED avgVars
    /\ UNCHANGED tableVars
    /\ UNCHANGED buildVars

\* _kill_spawned_docker_containers: docker stop for the containers whose
\* ancestor is latest_running_docker_image, if that is not empty
KilledImages == IF latest_image = "" THEN {} ELSE {latest_image}

\* p = subprocess.Popen(generator_run_command)
PopenGenerator ==
    /\ sgPc = "gen_popen"
    /\ containers' = containers \cup {GeneratorImage}
    /\ sgPc' = "gen_assign"
    /\ UNCHANGED <<group_numbers, latest_image, in_flight, stopped>>
    /\ SignalUnchanged

\* self.latest_running_docker_image = "generator" + str(generating_team)
AssignGenerator ==
    /\ sgPc = "gen_assign"
    /\ latest_image' = GeneratorImage
    /\ sgPc' = "gen_communicate"
    /\ UNCHANGED <<group_numbers, containers, in_flight, stopped>>
    /\ SignalUnchanged

\* p.communicate of the generator: the container finishes, or the timeout
\* expires and _kill_spawned_docker_containers stops it; then the fight
\* goes on to the solver or ends
CommunicateGenerator ==
    /\ sgPc = "gen_communicate"
    /\ \E run \in RunOutcomes :
         IF run = "timeout"
         THEN /\ containers' = containers \ KilledImages
              /\ sgPc' = "ended"
         ELSE /\ containers' = containers \ {GeneratorImage}
              /\ sgPc' \in {"sol_popen", "ended"}
    /\ UNCHANGED <<group_numbers, latest_image, in_flight, stopped>>
    /\ SignalUnchanged

\* p = subprocess.Popen(solver_run_command)
PopenSolver ==
    /\ sgPc = "sol_popen"
    /\ containers' = containers \cup {SolverImage}
    /\ sgPc' = "sol_assign"
    /\ UNCHANGED <<group_numbers, latest_image, in_flight, stopped>>
    /\ SignalUnchanged

\* self.latest_running_docker_image = "solver" + str(solving_team)
AssignSolver ==
    /\ sgPc = "sol_assign"
    /\ latest_image' = SolverImage
    /\ sgPc' = "sol_communicate"
    /\ UNCHANGED <<group_numbers, containers, in_flight, stopped>>
    /\ SignalUnchanged

\* p.communicate of the solver
CommunicateSolver ==
    /\ sgPc = "sol_communicate"
    /\ \E run \in RunOutcomes :
         containers' = IF run = "timeout" THEN containers \ KilledImages
                       ELSE containers \ {SolverImage}
    /\ sgPc' = "ended"
    /\ UNCHANGED <<group_numbers, latest_image, in_flight, stopped>>
    /\ SignalUnchanged

\* signal_handler: _kill_spawned_docker_containers, then sys.exit(0)
signal_handler ==
    /\ sgPc \notin {"idle", "ended", "exited"}
    /\ in_flight' = containers
    /\ stopped' = KilledImages
    /\ containers' = containers \ KilledImages
    /\ sgPc' = "exited"
    /\ UNCHANGED <<group_numbers, latest_image>>
    /\ SignalUnchanged

SignalNext ==
    \/ PopenGenerator
    \/ AssignGenerator
    \/ CommunicateGenerator
    \/ PopenSolver
    \/ AssignSolver
    \/ CommunicateSolver
    \/ signal_handler

SpecSignal ==
    /\ SignalInit
    /\ [][SignalNext]_vars

-----------------------------------------------------------------------------
(***************************************************************************)
(* The points of the two teams: main of src/run.py after match.run has     *)
(* returned.  A result is what Match._battle_wrapper returns: its          *)
(* maximum_reached_n, which starts at -1 and stays there when the first    *)
(* fight of the battle is lost.                                            *)
(***************************************************************************)
\* round(num / den) for den > 0: the nearest integer, the even one of two
\* that are equally near
Round(num, den) ==
    LET q == num \div den
        r == num - q * den
    IN  IF 2 * r < den THEN q
        ELSE IF 2 * r > den THEN q + 1
        ELSE IF q % 2 = 0 THEN q
        ELSE q + 1

\* the points of one battle for the team with result mine against the result
\* theirs: the body of the for loop
BattlePoints(total, iterations, mine, theirs) ==
    IF mine + theirs > 0
    THEN Round(total * mine, iterations * (mine + theirs))
    ELSE Round(total, iterations * 2)

\* points0 or points1 after the for loop over the first k battles
RECURSIVE CountedPoints(_, _, _, _)
CountedPoints(total, mine, theirs, k) ==
    IF k = 0 THEN 0
    ELSE CountedPoints(total, mine, theirs, k - 1)
             + BattlePoints(total, Len(mine), mine[k], theirs[k])

RunPyInit ==
    /\ MatchIdle
    /\ IterIdle
    /\ FightIdle
    /\ ScoreIdle
    /\ TeamIdle
    /\ PointsIdle
    /\ RunIdle
    /\ NotifyIdle
    /\ AveragedIdle
    /\ TableIdle
    /\ BuildIdle
    /\ SignalIdle
    /\ rpPc = "results"
    /\ points \in 0 .. MaxPoints
    /\ \E iterations \in 1 .. MaxBattleIterations :
         /\ results0 \in [1 .. iterations -> -1 .. MaxResult]
         /\ results1 \in [1 .. iterations -> -1 .. MaxResult]
    /\ points0 = 0
    /\ points1 = 0

\* main: the points of the two teams are counted
CountPoints ==
    /\ rpPc = "results"
    /\ points0' = CountedPoints(points, results0, results1, Len(results0))
    /\ points1' = CountedPoints(points, results1, results0, Len(results0))
    /\ rpPc' = "counted"
    /\ UNCHANGED <<points, results0, results1>>
    /\ UNCHANGED matchVars
    /\ UNCHANGED iterVars
    /\ UNCHANGED fightVars
    /\ UNCHANGED scoreVars
    /\ UNCHANGED teamVars
    /\ UNCHANGED pointVars
    /\ UNCHANGED runVars
    /\ UNCHANGED notifyVars
    /\ UNCHANGED avgVars
    /\ UNCHANGED tableVars
    /\ UNCHANGED buildVars
    /\ UNCHANGED signalVars

RunPyNext == CountPoints

SpecRunPy ==
    /\ RunPyInit
    /\ [][RunPyNext]_vars

-----------------------------------------------------------------------------
(***************************************************************************)
(* Claims about Match.run                                                  *)
(***************************************************************************)

\* C1: at every moment the number of battles that hold a slot of the limiter
\* is at most parallel_battles (and the limiter's count is exactly the number
\* of running battles); while all slots are held no further battle is
\* admitted, and the for loop has not moved past the battle that waits: at
\* most one started battle waits and Match.run waits with it.
C1_BoundedParallelism ==
    /\ [](/\ Cardinality(Running) <= parallel_battles
          /\ borrowed_tokens = Cardinality(Running)
          /\ Cardinality(Waiting) <= 1
          /\ (Waiting # {} => runPc = "starting"))
    /\ [][borrowed_tokens = parallel_battles
            => (Admitted' \subseteq Admitted /\ nextMatchup' = nextMatchup)]_vars

\* C1 witness: all slots are held, by more than one battle, and the next
\* matchup's battle has been started and waits for a slot
C1_Witness ==
    /\ parallel_battles > 1
    /\ borrowed_tokens = parallel_battles
    /\ Waiting # {}
    /\ runPc = "starting"

\* C2: a battle that raises does not abort Match.run: Match.run never ends
\* with that exception, the slot of the battle is released, and from then on
\* every matchup's battle is admitted and ends and Match.run returns.
C2_RaiseDoesNotAbort ==
    /\ []((\E m \in MatchupIds : task[m] = "raised")
            => /\ runPc # "aborted"
               /\ borrowed_tokens = Cardinality(Running)
               /\ \A m \in MatchupIds : task[m] # "cancelled")
    /\ ((\E m \in MatchupIds : task[m] = "raised")
            ~> (/\ runPc = "returned"
                /\ \A j \in 1 .. Len(matchups) : matchups[j] \in Finished
                /\ borrowed_tokens = 0))

\* C2 witness: Match.run has returned, one battle raised and another battle,
\* admitted into the slot the raising battle had held, ran to completion
C2_Witness ==
    /\ runPc = "returned"
    /\ parallel_battles = 1
    /\ Len(matchups) >= 2
    /\ task[matchups[1]] = "raised"
    /\ task[matchups[2]] = "done"

\* the outcome of the battle that results holds for a matchup: the Battle
\* object entered for it, in the state its run left it in
ResultOf(m) == task[m]

\* C22, as stated: after Match.run has returned a matchup whose battle
\* raised has no entry in results, and every matchup whose battle completed
\* has one.
C22_RaisedBattleIsMissing ==
    runPc = "returned"
        => \A m \in MatchupIds :
              /\ task[m] = "raised" => m \notin results
              /\ task[m] = "done" => m \in results

\* C22, amended: after Match.run has returned every matchup of the list has
\* an entry in results, the matchups whose battle raised included: the entry
\* is made before the battle runs and a raising battle does not remove it.
C22_RaisedBattleKeepsEntry ==
    /\ [](runPc = "returned"
            => \A j \in 1 .. Len(matchups) :
                  /\ task[matchups[j]] \in {"done", "raised"}
                  /\ matchups[j] \in results)
    /\ [][\A m \in MatchupIds :
            (task[m] = "running" /\ task'[m] = "raised")
               => (m \in results /\ m \in results')]_vars

\* Match.run has returned; the first battle raised, the last one completed,
\* and both have an entry
C22_Witness ==
    /\ runPc = "returned"
    /\ Len(matchups) >= 3
    /\ task[matchups[1]] = "raised"
    /\ task[matchups[Len(matchups)]] = "done"
    /\ matchups[1] \in results
    /\ matchups[Len(matchups)] \in results

C36_RunReturnsWithUi == ui ~> (runPc = "returned")

-----------------------------------------------------------------------------
(***************************************************************************)
(* Claims about the iterated battle                                        *)
(***************************************************************************)

\* the run so far is one of a solver with boundary B: every fight at a size
\* below B succeeded and every fight at a size of at least B failed
MonotoneRun(B) ==
    /\ \A s \in solved_sizes : s < B
    /\ \A f \in failed_sizes : f >= B

\* the last fight failed with a step counter of at most one: the failure
\* that ends the battle
TerminatingFailure ==
    /\ IterDone
    /\ last_fight.size >= 0
    /\ last_fight.failed
    /\ last_fight.i <= 1

C4_MonotoneBoundary ==
    (variant = "wrapper" /\ IterDone /\ n_start < n_max)
        => \A B \in (n_start + 1) .. n_max :
              MonotoneRun(B) => (maximum_reached_n < B /\ maximum_reached_n <= n_max)

\* C5: if every fight succeeds, the battle ends with maximum_reached_n =
\* n_max, and no fight was run at a size above n_max.
C5_AlwaysSolvedReachesCap ==
    (variant = "wrapper" /\ IterDone /\ n_start < n_max /\ failed_sizes = {})
        => /\ maximum_reached_n = n_max
           /\ \A s \in solved_sizes : s <= n_max

\* C6: a failure that ends the battle leaves maximum_reached_n as it was, the
\* largest size solved in this battle (0 if none, for Iterated.wrapper).
C6_FailureKeepsMaximum ==
    (TerminatingFailure /\ n_start < n_max)
        => /\ maximum_reached_n = last_fight.max
           /\ (variant = "wrapper"
                 => maximum_reached_n =
                      IF solved_sizes = {} THEN 0 ELSE SetMax(solved_sizes))

\* C7 (as stated): whenever a fight is started, its size is below the cap.
C7_SizeBelowCap ==
    (variant = "wrapper" /\ alive) => n < n_cap

\* C7 (amended): if the start size is below the configured cap, then
\* whenever a fight is started, its size is below the current cap.
C7_SizeBelowCapFromValidStart ==
    (variant = "wrapper" /\ n_start < n_max /\ alive) => n < n_cap

\* C7 witness: a fight is about to start just below a cap that an earlier
\* failure has set
C7_Witness ==
    /\ variant = "wrapper"
    /\ n_start < n_max
    /\ alive
    /\ n_cap < n_max
    /\ n + 1 = n_cap
    /\ solved_sizes # {}

\* C30: when the fight at size n fails while i > 1, the backtrack sets
\* n_cap to n, moves n back by i ** exponent to a size that was solved,
\* resets i to 0, leaves maximum_reached_n alone and keeps the battle alive;
\* the battle is then alive with the next fight at a size strictly between
\* that solved size and the new cap.
C30_Backtrack ==
    /\ [][(last_fight' # last_fight /\ last_fight'.failed /\ last_fight'.i > 1)
            => LET back == Backtrack([n |-> n, i |-> i, n_cap |-> n_cap,
                                      maximum_reached_n |-> maximum_reached_n,
                                      alive |-> FALSE])
               IN  /\ back.n_cap = n
                   /\ back.n = n - Pow(i, exponent)
                   /\ back.n \in solved_sizes
                   /\ back.i = 0
                   /\ back.maximum_reached_n = maximum_reached_n
                   /\ back.alive
                   /\ n_cap' = n
                   /\ maximum_reached_n' = maximum_reached_n
                   /\ alive'
                   /\ back.n < n'
                   /\ n' < n_cap']_vars
    /\ []((last_fight.failed /\ last_fight.i > 1)
            => /\ alive
               /\ n_cap = last_fight.size
               /\ maximum_reached_n = last_fight.max
               /\ n = last_fight.size - Pow(last_fight.i, exponent) + 1
               /\ n - 1 \in solved_sizes)

\* the fight at size 5 failed after the steps 0, 1, 5: the cap is 5 and the
\* next fight is at size 2
C30_Witness ==
    /\ variant = "wrapper"
    /\ last_fight.failed
    /\ last_fight.size = 5
    /\ last_fight.i = 2
    /\ exponent = 2
    /\ n_cap = 5
    /\ n = 2
    /\ alive

\* the last fight was won and its step reached or passed a cap that an
\* earlier failure had set, of which the size was not just below
PulledBack ==
    /\ last_fight.size >= 0
    /\ ~last_fight.failed
    /\ last_fight.cap # n_max
    /\ last_fight.size + 1 # last_fight.cap
    /\ last_fight.size + Pow(last_fight.i + 1, exponent) >= last_fight.cap

\* C31, as stated: after a pull-back the next fight is at n_cap - 1 and i
\* is 1.
C31_PullBackToBelowCap ==
    PulledBack => (n = n_cap - 1 /\ i = 1)

\* C31, amended: after a pull-back the next fight is at the size just won
\* plus one, which is below the cap, i is 1, the cap is the one it was and
\* the battle is alive.
C31_PullBackToNextSize ==
    PulledBack
        => /\ n = last_fight.size + 1
           /\ n < n_cap
           /\ i = 1
           /\ n_cap = last_fight.cap
           /\ alive

\* after the fights 0, 1, 5 (lost: cap 5) and 2 (won, the step of 4 passes
\* the cap) the next fight is at 3, not at 4
C31_Witness ==
    /\ variant = "wrapper"
    /\ PulledBack
    /\ exponent = 2
    /\ last_fight.size = 2
    /\ n_cap = 5
    /\ n = 3
    /\ i = 1
    /\ alive

\* C32: from one published state of an iterated battle to the next n_cap
\* does not increase and maximum_reached_n does not decrease, and in every
\* published state with n_cap # n_max maximum_reached_n is below n_cap.
C32_CapAndMaximumMonotone ==
    /\ [][/\ n_cap' <= n_cap
          /\ maximum_reached_n' >= maximum_reached_n]_vars
    /\ []((last_fight.size >= 0 /\ n_cap # n_max)
            => maximum_reached_n < n_cap)

\* a published state after a backtrack: the cap is below n_max and sizes
\* have been solved
C32_Witness ==
    /\ variant = "wrapper"
    /\ last_fight.failed
    /\ n_cap < n_max
    /\ maximum_reached_n > 0
    /\ maximum_reached_n < n_cap
    /\ alive

\* C34: within one battle no size is fought twice (every fight is at a size
\* at which no fight was run before), and from a start size below n_max the
\* sizes of all fights are at least the start size and below n_max.
C34_SizesDistinctAndBelowMax ==
    /\ [][n \notin solved_sizes \cup failed_sizes]_vars
    /\ [](n_start < n_max
            => \A s \in solved_sizes \cup failed_sizes :
                  n_start <= s /\ s < n_max)

\* C38: in Match._battle_wrapper, from a start size below iteration_cap
\* (n_max), no fight is run at a size of iteration_cap or more, the maximum
\* never exceeds iteration_cap, and a battle that ended without a failed
\* fight ended with the maximum equal to iteration_cap.
C38_IterationCapBoundsLegacy ==
    (variant = "legacy" /\ n_start < n_max)
        => /\ \A s \in solved_sizes \cup failed_sizes : s < n_max
           /\ maximum_reached_n <= n_max
           /\ (IterDone /\ failed_sizes = {}) => maximum_reached_n = n_max

-----------------------------------------------------------------------------
(***************************************************************************)
(* Claims about a single fight                                             *)
(***************************************************************************)

\* the generator run failed: it timed out or crashed
GeneratorFailed == gen_run \in {"timeout", "crashed"}

\* the generator's output does not yield a valid instance
InstanceInvalid == gen_output \in {"undecodable", "invalid"}

\* the solver run failed: it timed out or crashed
SolverFailed == sol_run \in {"timeout", "crashed"}

\* the solver's output does not yield a valid solution
SolutionInvalid == sol_output \in {"undecodable", "wrong"}

\* C8: the solver container is started only after the generator run has
\* completed without timeout or error and its output has been decoded and
\* validated; if the generator fails or its instance is invalid, the solver
\* is never run.
C8_SolverOnlyAfterValidInstance ==
    /\ solver_started => (gen_run = "exit_ok" /\ gen_output = "valid")
    /\ (GeneratorFailed \/ InstanceInvalid) => ~solver_started

\* C9: a fight in which the generator times out, crashes or yields an
\* invalid instance ends in favour of the solver (True), and otherwise a
\* fight in which the solver times out, crashes or yields an invalid
\* solution ends as a failure of the solver (False).
C9_AsymmetricOutcome ==
    FightEnded
        => /\ (GeneratorFailed \/ InstanceInvalid) => fight_result = "alive"
           /\ (~(GeneratorFailed \/ InstanceInvalid)
                 /\ (SolverFailed \/ SolutionInvalid)) => fight_result = "dead"

-----------------------------------------------------------------------------
(***************************************************************************)
(* Claims about the score of a fight                                       *)
(***************************************************************************)

-----------------------------------------------------------------------------
(***************************************************************************)
(* Claims about the teams                                                  *)
(***************************************************************************)

\* C11: when the with block of the handler has been left, whether the
\* match completed, was interrupted or raised, every image that was built
\* has been removed exactly once, the two images of every active team among
\* them; and no image is ever removed twice.
C11_ImagesRemovedOnce ==
    /\ \A img \in DOMAIN images : images[img] <= 1
    /\ (tPc = "done" /\ match_outcome # "none")
          => /\ \A img \in DOMAIN images : images[img] = 1
             /\ \A k \in DOMAIN active :
                   /\ active[k].generator \in DOMAIN images
                   /\ active[k].solver \in DOMAIN images
                   /\ images[active[k].generator] = 1
                   /\ images[active[k].solver] = 1

\* the match was interrupted with two active teams and an excluded one
C11_Witness ==
    /\ tPc = "done"
    /\ match_outcome = "interrupted"
    /\ Len(active) = 2
    /\ DOMAIN excluded # {}
    /\ \A k \in DOMAIN active : images[active[k].solver] = 1

\* C12: if an interrupt arrives while the teams are being built, every image
\* built until then has been removed when the program has ended.
C12_InterruptedBuildCleansUp ==
    (tPc = "done" /\ build_interrupted)
        => \A img \in DOMAIN images : images[img] >= 1

\* the k-th configured team failed to build one of its programs
BuildFailed(k) ==
    \/ infos[k].generator \in BuildOutcomes \ {"ok"}
    \/ infos[k].solver \in BuildOutcomes \ {"ok"}

\* what a build failure of the k-th configured team leads to
BuildFailureHandled(k) ==
    LET cause == IF infos[k].generator # "ok" THEN infos[k].generator
                 ELSE infos[k].solver
    IN  /\ infos[k].error = "DockerError"
        /\ \A role \in {"generator", "solver"} :
              Image(k, role) \in DOMAIN images => images[Image(k, role)] = 1
        /\ \A a \in DOMAIN active : active[a].generator # Image(k, "generator")
        /\ infos[k].name \in DOMAIN excluded
        /\ excluded[infos[k].name] = DockerError(cause)

\* the build goes through all configured teams, and a team without any
\* error is active
BuildGoesOn ==
    /\ (tPc \in {"match", "exit"}) => Len(infos) = num_infos
    /\ \A k \in DOMAIN infos :
          infos[k].error = "none"
             => \E a \in DOMAIN active :
                   /\ active[a].generator = Image(k, "generator")
                   /\ active[a].name = Normalize(infos[k].name)

\* no two configured teams have the same name
InfoNamesDistinct ==
    \A k, l \in DOMAIN infos : k # l => infos[k].name # infos[l].name

InfoOf(team) == team.generator[1]

\* C14: with N active teams, matchups holds every ordered pair of two
\* distinct active teams exactly once and no self pairing when N > 1, the
\* one self matchup when N = 1 and nothing when N = 0; a team that was
\* excluded is in no matchup.
C14_Matchups ==
    LET ms == team_matchups(active)
        N == Len(active)
    IN  /\ N = 0 => ms = <<>>
        /\ N = 1 => ms = <<Matchup(active[1], active[1])>>
        /\ N > 1 =>
              /\ Len(ms) = N * (N - 1)
              /\ \A k \in DOMAIN ms : ms[k].generator # ms[k].solver
              /\ \A a, b \in 1 .. N :
                    a # b =>
                       Cardinality({k \in DOMAIN ms :
                           ms[k] = Matchup(active[a], active[b])}) = 1
        /\ \A k \in DOMAIN ms :
              /\ \E a \in DOMAIN active : ms[k].generator = active[a]
              /\ \E a \in DOMAIN active : ms[k].solver = active[a]
        /\ \A k \in DOMAIN ms, l \in DOMAIN infos :
              infos[l].error # "none"
                 => (InfoOf(ms[k].generator) # l /\ InfoOf(ms[k].solver) # l)

\* two active teams and an excluded one: two matchups
C14_Witness ==
    /\ tPc = "match"
    /\ Len(active) = 2
    /\ DOMAIN excluded # {}
    /\ Len(team_matchups(active)) = 2
    /\ team_matchups(active)[2] = Matchup(active[2], active[1])

\* C15: no two live teams have the same normalized name, the registry holds
\* the names of the live teams, a creation under a name in use fails and
\* changes nothing, and a cleanup releases the name.
C15_UniqueNames ==
    /\ [](/\ \A k, l \in DOMAIN live_teams :
                k # l => live_teams[k].name # live_teams[l].name
          /\ team_names = {live_teams[k].name : k \in DOMAIN live_teams})
    /\ [][/\ (last_op'.op = "create" /\ ~last_op'.ok)
               => /\ last_op'.name \in team_names
                  /\ team_names' = team_names
                  /\ live_teams' = live_teams
          /\ (last_op'.op = "create" /\ last_op'.ok)
               => /\ last_op'.name \notin team_names
                  /\ last_op'.name \in team_names'
          /\ (last_op'.op = "cleanup")
               => /\ last_op'.name \in team_names
                  /\ last_op'.name \notin team_names']_vars

\* a name was released by a cleanup and a creation under a name in use
\* has just failed
C15_Witness ==
    /\ tPc = "names"
    /\ last_op.op = "create"
    /\ ~last_op.ok
    /\ Len(live_teams) = 2
    /\ \E img \in DOMAIN images : images[img] = 1

-----------------------------------------------------------------------------
(***************************************************************************)
(* Claims about the points                                                 *)
(***************************************************************************)

\* C16: calculate_points returns the empty table when no team is active,
\* and with one active team the table that gives this team exactly
\* achievable_points, whatever the score of its battle against itself and
\* whether or not that battle has a result.
C16_NoneOrSingleTeam ==
    PointsEnded
        => /\ Len(active) = 0
                => (ptPc = "returned" /\ points_table = <<>>)
           /\ Len(active) = 1
                => /\ ptPc = "returned"
                   /\ DOMAIN points_table = {active[1].name}
                   /\ points_table[active[1].name] = achievable_points

\* a single active team whose battle against itself scored 0 gets all 100
\* points
C16_Witness ==
    /\ ptPc = "returned"
    /\ Len(active) = 1
    /\ achievable_points = 100
    /\ Matchup(active[1], active[1]) \in DOMAIN battle_results
    /\ battle_results[Matchup(active[1], active[1])] = 0
    /\ points_table[active[1].name] = 100

\* the two mirrored matchups of the active teams at positions a < b
HomeMatchup(a, b) == Matchup(active[a], active[b])

AwayMatchup(a, b) == Matchup(active[b], active[a])

\* the team of a matchup that the battle type scores
ScoringTeam(matchup) ==
    IF scoring_team = "generator" THEN matchup.generator ELSE matchup.solver

\* both battles of the pair have a result
PairFought(a, b) ==
    /\ HomeMatchup(a, b) \in DOMAIN battle_results
    /\ AwayMatchup(a, b) \in DOMAIN battle_results

\* the sum of the points of the teams in S
RECURSIVE SumPoints(_, _)
SumPoints(table, S) ==
    IF S = {} THEN 0
    ELSE LET t == CHOOSE t \in S : TRUE
         IN  table[t] + SumPoints(table, S \ {t})

\* C17: for a pair of active teams whose two mirrored battles have equal
\* scores, both 0 included, calculate_points returns a table in which the
\* pair's points are split evenly; with two active teams and no excluded
\* one the two teams have the same points.
C17_TiedPairSplitsEvenly ==
    PointsEnded
        => \A a, b \in DOMAIN active :
              (/\ a < b
               /\ PairFought(a, b)
               /\ battle_results[HomeMatchup(a, b)]
                     = battle_results[AwayMatchup(a, b)])
                 => /\ ptPc = "returned"
                    /\ (Len(active) = 2 /\ DOMAIN excluded = {})
                          => points_table[active[a].name]
                                = points_table[active[b].name]

\* C18: with at least two active teams, no excluded team and a result for
\* every matchup, calculate_points returns a table whose points sum to
\* achievable_points up to rounding.
C18_PointsSumToAchievable ==
    (/\ PointsEnded
     /\ Len(active) >= 2
     /\ DOMAIN excluded = {}
     /\ \A a, b \in DOMAIN active : a < b => PairFought(a, b))
        => /\ ptPc = "returned"
           /\ SumPoints(points_table, DOMAIN points_table)
                 \in (achievable_points - 1) .. (achievable_points + 1)

\* C19: with two active teams and no excluded one, the team whose scoring
\* battle has the strictly higher score gets more than half of
\* achievable_points, the other less than half, and the two sum to
\* achievable_points.
C19_HigherScoreGetsMore ==
    (/\ PointsEnded
     /\ Len(active) = 2
     /\ DOMAIN excluded = {}
     /\ PairFought(1, 2)
     /\ battle_results[HomeMatchup(1, 2)] > battle_results[AwayMatchup(1, 2)])
        => LET home == ScoringTeam(HomeMatchup(1, 2)).name
               away == ScoringTeam(AwayMatchup(1, 2)).name
           IN  /\ ptPc = "returned"
               /\ 2 * points_table[home] > achievable_points
               /\ 2 * points_table[away] < achievable_points
               /\ points_table[home] + points_table[away] = achievable_points

\* C20: with at least two active teams, every active team's points include
\* per_pair = achievable_points / (active teams - 1) once for every excluded
\* team, and an excluded team has no points.
C20_CreditForExcludedTeams ==
    (PointsEnded /\ Len(active) >= 2)
        => /\ ptPc = "returned"
           /\ \A a \in DOMAIN active :
                 points_table[active[a].name] * (Len(active) - 1)
                    >= achievable_points * Cardinality(DOMAIN excluded)
           /\ \A name \in DOMAIN excluded :
                 (\A a \in DOMAIN active : active[a].name # name)
                    => (name \notin DOMAIN points_table \/ points_table[name] = 0)

\* C21: for a pair of active teams of which at least one of the two mirrored
\* matchups has no result, calculate_points raises no error and gives
\* neither team points for that pair; with two active teams and no excluded
\* one both teams have 0 points.
C21_MissingResultsTolerated ==
    PointsEnded
        => \A a, b \in DOMAIN active :
              (a < b /\ ~PairFought(a, b))
                 => /\ ptPc = "returned"
                    /\ (Len(active) = 2 /\ DOMAIN excluded = {})
                          => /\ points_table[active[a].name] = 0
                             /\ points_table[active[b].name] = 0

\* C33: with two active teams and no excluded one, when one of the two
\* mirrored battles has a positive score and the other has score 0,
\* calculate_points returns a table in which the team that held the scoring
\* role in the battle with the positive score has all the points and the
\* team that held it in the other battle has none.
C33_ShareGoesToScoringTeam ==
    (/\ PointsEnded
     /\ Len(active) = 2
     /\ DOMAIN excluded = {}
     /\ PairFought(1, 2))
        => LET home == ScoringTeam(HomeMatchup(1, 2)).name
               away == ScoringTeam(AwayMatchup(1, 2)).name
               home_score == battle_results[HomeMatchup(1, 2)]
               away_score == battle_results[AwayMatchup(1, 2)]
           IN  /\ ptPc = "returned"
               /\ (home_score > 0 /\ away_score = 0)
                     => /\ points_table[home] = achievable_points
                        /\ points_table[away] = 0
               /\ (home_score = 0 /\ away_score > 0)
                     => /\ points_table[home] = 0
                        /\ points_table[away] = achievable_points

\* C37: calculate_points returns a table, and no team's points in it are
\* negative or greater than achievable_points.
C37_PointsInRange ==
    PointsEnded
        => /\ ptPc = "returned"
           /\ \A name \in DOMAIN points_table :
                 /\ points_table[name] >= 0
                 /\ points_table[name] <= achievable_points

-----------------------------------------------------------------------------
(***************************************************************************)
(* Claims about a container run                                            *)
(***************************************************************************)

\* C24: a run whose container exceeds its time limit fails: when the
\* subprocess ended with TimeoutExpired, Image.run does not return normally.
C24_TimeoutFails ==
    (rPc = "exited" /\ process.kind = "TimeoutExpired")
        => run_exit.kind = "raise"

\* C25: on every exit path Image.run has attempted to kill its container
\* before it ends; a container is still running afterwards only if the
\* kill attempt failed, a failed kill attempt is logged, and the kill attempt
\* never changes what the call returns or raises.
C25_KillOnEveryExit ==
    rPc = "exited"
        => /\ kill_attempts = 1
           /\ kill_outcome \notin {"killed", "No such container"}
                 => kill_warning
           /\ container = "running" => kill_outcome # "killed"
           /\ run_exit = pending

-----------------------------------------------------------------------------
(***************************************************************************)
(* Claims about the observers                                              *)
(***************************************************************************)

\* C26: notifying is fire-and-forget: no update's exception is raised into
\* the caller of notify, notify never waits for an update that does not
\* return, and when the call of notify has ended every attached observer's
\* update has been called.
C26_FireAndForget ==
    /\ nPc # "raised"
    /\ nPc # "blocked"
    /\ nPc \in {"returned", "raised"}
          => \A k \in DOMAIN observers :
                \E l \in DOMAIN delivered : delivered[l] = observers[k]

-----------------------------------------------------------------------------
(***************************************************************************)
(* Claims about the averaged battle                                        *)
(***************************************************************************)

\* C27: an averaged battle runs exactly approx_iters fights, all at
\* approx_inst_size, whatever their outcomes, and records every fight's
\* ratio, zeros included, in fight order; while fights remain, a fight the
\* solver lost does not end the battle.
C27_FixedNumberOfFights ==
    /\ aPc \in {"done", "scored"}
          => /\ Len(fights) = approx_iters
             /\ \A k \in DOMAIN fights : fights[k].size = approx_inst_size
    /\ Len(approx_ratios) = Len(fights)
    /\ \A k \in DOMAIN fights : approx_ratios[k] = fights[k].ratio
    /\ Len(fights) < approx_iters => aPc = "fighting"

\* the battle is over after three fights, of which the solver lost the first
C27_Witness ==
    /\ aPc = "done"
    /\ approx_iters = 3
    /\ Len(fights) = 3
    /\ approx_ratios[1] = <<0, 1>>
    /\ approx_ratios[3] # <<0, 1>>

\* the number of fights of the round with ratio x
Count(x) == Cardinality({k \in DOMAIN approx_ratios : approx_ratios[k] = x})

\* the sum over the nonzero ratios in S of Count(x) / x
RECURSIVE WeightedReciprocals(_)
WeightedReciprocals(S) ==
    IF S = {} THEN <<0, 1>>
    ELSE LET x == CHOOSE x \in S : TRUE
         IN  RatAdd(<<Count(x) * x[2], x[1]>>, WeightedReciprocals(S \ {x}))

AllSolved == \A k \in DOMAIN approx_ratios : approx_ratios[k][1] # 0

-----------------------------------------------------------------------------
(***************************************************************************)
(* Claims about the formatting of tables                                   *)
(***************************************************************************)

\* C29: the lines of a table formatted with a maximum width all have the
\* same length, and that length is at most max_width.
C29_LinesFitMaxWidth ==
    tbPc = "formatted"
        => /\ Cardinality(line_lengths) = 1
           /\ \A length \in line_lengths : length <= max_width

-----------------------------------------------------------------------------
(***************************************************************************)
(* Claims about interleaved calls of TeamInfo.build                        *)
(***************************************************************************)
\* C35: when a call of TeamInfo.build has raised, every image it built has
\* been removed.
C35_FailedBuildLeavesNoImage ==
    \A p \in DOMAIN bPc :
        bPc[p] = "raised"
            => \A role \in {"generator", "solver"} :
                  Image(p, role) \in DOMAIN built_images
                      => built_images[Image(p, role)] >= 1

-----------------------------------------------------------------------------
(***************************************************************************)
(* Claims about an interrupt during a fight                                *)
(***************************************************************************)
\* C39: when the signal arrived while a container was started and not yet
\* finished, the handler stopped the containers of exactly that image
\* before the process exited, and none is left.
C39_InterruptStopsInFlightContainer ==
    (sgPc = "exited" /\ in_flight # {})
        => /\ stopped = in_flight
           /\ containers = {}

-----------------------------------------------------------------------------
(***************************************************************************)
(* Claims about the points of src/run.py                                   *)
(***************************************************************************)
\* C40: once the points are counted, each team's points are at least 0, and
\* neither team's points nor the two together exceed the total by more than
\* one point per battle (the rounding).
C40_LegacyPointsInRange ==
    rpPc = "counted"
        => /\ 0 <= points0 /\ points0 <= points + Len(results0)
           /\ 0 <= points1 /\ points1 <= points + Len(results0)
           /\ points0 + points1 <= points + Len(results0)

=============================================================================
